---- MODULE Spec2Model ----
(***************************************************************************)
(* Model of the result mapper of cucumber-java-easy-runner                 *)
(* (testResultMapper.ts): waiting for the JSON report, locating the        *)
(* report entry of a feature file by tolerant path comparison, and         *)
(* classifying every scenario-like element of that entry.                  *)
(*                                                                         *)
(* Strings that the code inspects character by character (paths) are       *)
(* sequences of one-character strings.  Strings that the code only builds  *)
(* and compares as a whole (labels, messages) are sequences of strings.    *)
(***************************************************************************)
EXTENDS Integers, Sequences, FiniteSets, TLC

VARIABLES
  resultFile,       \* content of the report file on disk: [kind, data]
  featureFilePath,  \* featureUri.fsPath of the item being reconciled
  scenarioResults,  \* value returned by parseResultFileForFeature
  featureFailed,    \* value returned by hasFeatureFailures
  done,             \* the calls that have returned
  caller,           \* the entry point that is waiting for the report
  pc,               \* its position: "idle", "attempt", "read", "returned"
  attempt,          \* loop counter of waitForValidJsonFile
  isValid,          \* value returned by waitForValidJsonFile
  readBack,         \* what the read after the wait gave: [ok, data]
  everArray,        \* history: the file held a JSON array at some moment
  testItems,        \* the items of the run request, after filterTestItems
  cursor,           \* index in testItems of the item processed next
  marks,            \* catalog node -> what the run last recorded for it
  cancelled,        \* token.isCancellationRequested of the run request
  document,         \* the lines of the feature file handed to the parser
  featureInfo,      \* what parseFeatureFile returned
  returned,         \* parseFeatureFile has returned
  codeLenses,       \* what provideCodeLenses returned: [provided, lenses]
  fileText,         \* feature file -> the text it holds on disk, or "missing"
  items,            \* controller.items: feature id -> the tree of its feature item
  watchedFiles,     \* the keys of the watchedFiles map
  updateTimers,     \* the updateTimers map: file key -> timer, 0 for no entry
  pendingTimers,    \* the timers that are set and have neither fired nor been cleared
  inflight,         \* the timer callbacks whose createOrUpdateTest has not returned
  nextTimer,        \* the number the next timer gets
  requested,        \* request.include of the run request, before filterTestItems
  run,              \* the test run of executeTests: [phase, allPassed, statusBar, ended]
  sessions          \* the batch runs waiting in runWithVSCode, by run

vars == <<resultFile, featureFilePath, scenarioResults, featureFailed, done,
          caller, pc, attempt, isValid, readBack, everArray,
          testItems, cursor, marks, cancelled, document, featureInfo, returned,
          codeLenses,
          fileText, items, watchedFiles, updateTimers, pendingTimers, inflight,
          nextTimer, requested, run, sessions>>

runVars == <<requested, run, sessions>>

catVars == <<fileText, items, watchedFiles, updateTimers, pendingTimers, inflight,
             nextTimer>>

waitVars == <<caller, pc, attempt, isValid, readBack, everArray>>

markVars == <<testItems, cursor, marks, cancelled>>

docVars == <<document, featureInfo, returned, codeLenses>>

(***************************************************************************)
(* Bounds of the model.                                                    *)
(***************************************************************************)
MaxHooks == 2
MaxSteps == 3

(***************************************************************************)
(* Generic helpers.                                                        *)
(***************************************************************************)
SeqsUpTo(S, n) == UNION {[1..k -> S] : k \in 0..n}

StartsWith(s, p) == Len(s) >= Len(p) /\ SubSeq(s, 1, Len(p)) = p

EndsWith(s, p) == Len(s) >= Len(p) /\ SubSeq(s, Len(s) - Len(p) + 1, Len(s)) = p

DropPrefix(s, p) == IF StartsWith(s, p) THEN SubSeq(s, Len(p) + 1, Len(s)) ELSE s

(***************************************************************************)
(* normalizePath                                                           *)
(***************************************************************************)
UpperCase == <<"A","B","C","D","E","F","G","H","I","J","K","L","M",
               "N","O","P","Q","R","S","T","U","V","W","X","Y","Z">>
LowerCase == <<"a","b","c","d","e","f","g","h","i","j","k","l","m",
               "n","o","p","q","r","s","t","u","v","w","x","y","z">>

ToLowerChar(c) ==
  IF \E i \in 1..Len(UpperCase) : UpperCase[i] = c
  THEN LowerCase[CHOOSE i \in 1..Len(UpperCase) : UpperCase[i] = c]
  ELSE c

ToLowerCase(s) == [i \in 1..Len(s) |-> ToLowerChar(s[i])]

BackslashesToSlashes(s) == [i \in 1..Len(s) |-> IF s[i] = "\\" THEN "/" ELSE s[i]]

normalizePath(filePath) ==
  LET a == DropPrefix(filePath, <<"f","i","l","e",":","/","/">>)
      b == DropPrefix(a, <<"f","i","l","e",":">>)
      c == BackslashesToSlashes(b)
      d == DropPrefix(c, <<".","/">>)
      e == DropPrefix(d, <<"/">>)
  IN  ToLowerCase(e)

(***************************************************************************)
(* isSameFeaturePath                                                       *)
(***************************************************************************)
RECURSIVE SplitFrom(_, _, _)
\* String.prototype.split('/'): cur is the part being collected.
SplitFrom(s, i, cur) ==
  IF i > Len(s) THEN <<cur>>
  ELSE IF s[i] = "/" THEN <<cur>> \o SplitFrom(s, i + 1, <<>>)
  ELSE SplitFrom(s, i + 1, Append(cur, s[i]))

Split(s) == SplitFrom(s, 1, <<>>)

RECURSIVE Join(_)
\* Array.prototype.join('/')
Join(parts) ==
  IF Len(parts) = 0 THEN <<>>
  ELSE IF Len(parts) = 1 THEN parts[1]
  ELSE parts[1] \o <<"/">> \o Join(Tail(parts))

\* Array.prototype.slice(-n) for n >= 1
SliceLast(parts, n) ==
  IF n >= Len(parts) THEN parts ELSE SubSeq(parts, Len(parts) - n + 1, Len(parts))

\* Mutant: the third tier accepts on the base name alone.
TrailingSegmentsMatch_BaseNameOnly(normalizedFull, normalizedRelative) ==
  LET fullPathParts == Split(normalizedFull)
      relativePathParts == Split(normalizedRelative)
  IN  fullPathParts[Len(fullPathParts)] = relativePathParts[Len(relativePathParts)]

TrailingSegmentsMatch(normalizedFull, normalizedRelative) ==
  LET fullPathParts == Split(normalizedFull)
      relativePathParts == Split(normalizedRelative)
  IN  IF fullPathParts[Len(fullPathParts)] # relativePathParts[Len(relativePathParts)]
      THEN FALSE
      ELSE IF Len(fullPathParts) >= Len(relativePathParts)
      THEN Join(SliceLast(fullPathParts, Len(relativePathParts))) = normalizedRelative
      ELSE FALSE

\* Mutant: the suffix tests take the report identity for the longer path.
isSameFeaturePath_Swapped(full, relative) ==
  LET normalizedFull == normalizePath(full)
      normalizedRelative == normalizePath(relative)
  IN  IF normalizedFull = normalizedRelative THEN TRUE
      ELSE IF EndsWith(normalizedRelative, <<"/">> \o normalizedFull) THEN TRUE
      ELSE TrailingSegmentsMatch(normalizedRelative, normalizedFull)

\* part_000:323-348
isSameFeaturePath(full, relative) ==
  LET normalizedFull == normalizePath(full)
      normalizedRelative == normalizePath(relative)
  IN  IF normalizedFull = normalizedRelative THEN TRUE
      ELSE IF EndsWith(normalizedFull, <<"/">> \o normalizedRelative) THEN TRUE
      ELSE TrailingSegmentsMatch(normalizedFull, normalizedRelative)

(***************************************************************************)
(* The run report.  A hook is [status, location]; status "none" stands for *)
(* a hook without a result object.  A step is [status, name, keyword,      *)
(* line]; status "none" stands for a step without a result (or without a   *)
(* status), line 0 for a step without a line.  The steps of an element are *)
(* [isArray, items]: isArray = FALSE stands for a missing steps field.     *)
(* Hooks and steps carry no error_message, so the code's synthesized       *)
(* message is the one attached.                                            *)
(***************************************************************************)
HookStatuses == {"passed", "failed", "none"}
StepStatuses == {"passed", "skipped", "failed", "none"}

HookLocations == <<"hooks.a()", "hooks.b()", "hooks.c()", "hooks.d()">>
StepNames == <<"step one", "step two", "step three", "step four", "step five">>

MkHooks(f) == [i \in 1..Len(f) |-> [status |-> f[i], location |-> HookLocations[i]]]

MkSteps(f, scenarioLine) ==
  [i \in 1..Len(f) |-> [status |-> f[i], keyword |-> "Given", name |-> StepNames[i],
                        line |-> scenarioLine + i]]

NoFailedStep == [present |-> FALSE, name |-> <<>>, errorMessage |-> <<>>, line |-> 0]

\* part_000:400 and :475, :715 and :725: hook.result && hook.result.status !== 'passed'
HookFailed(hook) == hook.status # "none" /\ hook.status # "passed"

FirstFailedHook(hooks) ==
  IF \E i \in 1..Len(hooks) : HookFailed(hooks[i])
  THEN CHOOSE i \in 1..Len(hooks) :
         HookFailed(hooks[i]) /\ \A j \in 1..(i - 1) : ~HookFailed(hooks[j])
  ELSE 0

HookFailure(label, hook, scenarioLine) ==
  [present |-> TRUE,
   name |-> <<label>>,
   errorMessage |-> <<"Hook Location: ", hook.location,
                      "Hook failed with status: ", hook.status>>,
   line |-> scenarioLine]

\* part_000:398-415
EvaluateBefore(scenario) ==
  LET k == FirstFailedHook(scenario.before)
  IN  IF k = 0
      THEN [passed |-> TRUE, failedStep |-> NoFailedStep]
      ELSE [passed |-> FALSE,
            failedStep |-> HookFailure("Before Hook Failed", scenario.before[k], scenario.line)]

\* part_000:419
StepStatusOf(step) == IF step.status = "none" THEN "no result" ELSE step.status

\* Mutant: only a real failure clears scenarioPassed.
StepClearsPassed_OnlyRealFailure(stepStatus) ==
  stepStatus # "passed" /\ stepStatus # "skipped"

\* part_000:426: a step that is not 'passed' clears scenarioPassed
StepClearsPassed(stepStatus) == stepStatus # "passed"

\* Mutant: a skipped step ends the scan as well.
StepIsFailure_SkippedToo(stepStatus) == stepStatus # "passed"

\* part_000:422-430: the step that ends the scan as the representative failure
StepIsFailure(stepStatus) == stepStatus # "passed" /\ stepStatus # "skipped"

StepFailure(step, stepStatus, scenarioLine) ==
  [present |-> TRUE,
   name |-> <<step.keyword, step.name>>,
   errorMessage |-> <<"Step ", stepStatus>>,
   line |-> IF step.line # 0 THEN step.line ELSE scenarioLine]

RECURSIVE ScanSteps(_, _, _, _)
\* part_000:418-444
ScanSteps(steps, i, scenarioLine, acc) ==
  IF i > Len(steps) THEN acc
  ELSE LET stepStatus == StepStatusOf(steps[i])
       IN  IF StepIsFailure(stepStatus)
           THEN [passed |-> FALSE, failedStep |-> StepFailure(steps[i], stepStatus, scenarioLine)]
           ELSE ScanSteps(steps, i + 1, scenarioLine,
                          [acc EXCEPT !.passed = acc.passed /\ ~StepClearsPassed(stepStatus)])

\* part_000:447-449
allStepsSkipped(steps) == \A i \in 1..Len(steps) : steps[i].status = "skipped"

SetupError(scenarioLine) ==
  [present |-> TRUE,
   name |-> <<"Scenario Setup Error">>,
   errorMessage |-> <<"All steps were skipped. Check for errors in @Before hooks or step definitions.">>,
   line |-> scenarioLine]

EmptyScenario(scenarioLine) ==
  [present |-> TRUE,
   name |-> <<"Empty Scenario">>,
   errorMessage |-> <<"Scenario has no steps">>,
   line |-> scenarioLine]

\* Mutant: a missing steps field is not taken for zero steps.
HasNoSteps_EmptyArrayOnly(steps) == steps.isArray /\ Len(steps.items) = 0

\* part_000:462: !scenario.steps || scenario.steps.length === 0
HasNoSteps(steps) == ~steps.isArray \/ Len(steps.items) = 0

\* Mutant: the steps are evaluated also after a before-hook failure.
EvaluateSteps_AfterHookFailure(scenario, acc) ==
  IF scenario.steps.isArray /\ Len(scenario.steps.items) > 0
  THEN LET scanned == ScanSteps(scenario.steps.items, 1, scenario.line, acc)
       IN  IF ~scanned.failedStep.present /\ allStepsSkipped(scenario.steps.items)
           THEN [passed |-> FALSE, failedStep |-> SetupError(scenario.line)]
           ELSE scanned
  ELSE IF ~acc.failedStep.present /\ HasNoSteps(scenario.steps)
  THEN [passed |-> FALSE, failedStep |-> EmptyScenario(scenario.line)]
  ELSE acc

\* Mutant: no failure is synthesized when every step was skipped.
EvaluateSteps_NoSetupError(scenario, acc) ==
  IF ~acc.failedStep.present /\ scenario.steps.isArray /\ Len(scenario.steps.items) > 0
  THEN ScanSteps(scenario.steps.items, 1, scenario.line, acc)
  ELSE IF ~acc.failedStep.present /\ HasNoSteps(scenario.steps)
  THEN [passed |-> FALSE, failedStep |-> EmptyScenario(scenario.line)]
  ELSE acc

\* part_000:417-471
EvaluateSteps(scenario, acc) ==
  IF ~acc.failedStep.present /\ scenario.steps.isArray /\ Len(scenario.steps.items) > 0
  THEN LET scanned == ScanSteps(scenario.steps.items, 1, scenario.line, acc)
       IN  IF ~scanned.failedStep.present /\ allStepsSkipped(scenario.steps.items)
           THEN [passed |-> FALSE, failedStep |-> SetupError(scenario.line)]
           ELSE scanned
  ELSE IF ~acc.failedStep.present /\ HasNoSteps(scenario.steps)
  THEN [passed |-> FALSE, failedStep |-> EmptyScenario(scenario.line)]
  ELSE acc

\* Mutant: the after-hook failure replaces a failure recorded earlier.
EvaluateAfter_Overrides(scenario, acc) ==
  LET k == FirstFailedHook(scenario.after)
  IN  IF k = 0 THEN acc
      ELSE [passed |-> FALSE,
            failedStep |-> HookFailure("After Hook Failed", scenario.after[k], scenario.line)]

\* Mutant: the after-hook failure is recorded without clearing scenarioPassed.
EvaluateAfter_KeepsPassed(scenario, acc) ==
  LET k == FirstFailedHook(scenario.after)
  IN  IF k = 0 THEN acc
      ELSE [passed |-> acc.passed,
            failedStep |-> IF acc.failedStep.present
                           THEN acc.failedStep
                           ELSE HookFailure("After Hook Failed", scenario.after[k], scenario.line)]

\* part_000:473-492
EvaluateAfter(scenario, acc) ==
  LET k == FirstFailedHook(scenario.after)
  IN  IF k = 0 THEN acc
      ELSE [passed |-> FALSE,
            failedStep |-> IF acc.failedStep.present
                           THEN acc.failedStep
                           ELSE HookFailure("After Hook Failed", scenario.after[k], scenario.line)]

\* part_000:390-499: one ScenarioResult
ClassifyScenario(scenario) ==
  LET r == EvaluateAfter(scenario, EvaluateSteps(scenario, EvaluateBefore(scenario)))
  IN  [name |-> scenario.name, line |-> scenario.line,
       passed |-> r.passed, failedStep |-> r.failedStep]

\* part_000:375 and :700: feature?.uri || feature?.id || ''
FeaturePathOf(feature) == IF feature.uri # <<>> THEN feature.uri ELSE feature.id

\* part_000:382 and :705
EntryMatches(feature, path) ==
  isSameFeaturePath(path, FeaturePathOf(feature)) /\ feature.elements.isArray

\* Mutant: the last matching entry is taken.
FirstMatch_Last(results, path) ==
  IF \E i \in 1..Len(results) : EntryMatches(results[i], path)
  THEN CHOOSE i \in 1..Len(results) :
         EntryMatches(results[i], path)
         /\ \A j \in (i + 1)..Len(results) : ~EntryMatches(results[j], path)
  ELSE 0

FirstMatch(results, path) ==
  IF \E i \in 1..Len(results) : EntryMatches(results[i], path)
  THEN CHOOSE i \in 1..Len(results) :
         EntryMatches(results[i], path) /\ \A j \in 1..(i - 1) : ~EntryMatches(results[j], path)
  ELSE 0

\* part_000:385
IsBackground(scenario) == scenario.type = "background"

RECURSIVE ClassifyElements(_)
\* part_000:384-502
ClassifyElements(elements) ==
  IF Len(elements) = 0 THEN <<>>
  ELSE IF IsBackground(Head(elements)) THEN ClassifyElements(Tail(elements))
  ELSE <<ClassifyScenario(Head(elements))>> \o ClassifyElements(Tail(elements))

\* part_000:374-507 on the parsed array
ReconcileResults(results, path) ==
  LET m == FirstMatch(results, path)
  IN  IF m = 0 THEN <<>> ELSE ClassifyElements(results[m].elements.items)

\* part_000:733-741
StepsFail(steps) ==
  steps.isArray /\ Len(steps.items) > 0
  /\ \E i \in 1..Len(steps.items) : steps.items[i].status # "passed"

\* part_000:711-743
ScenarioHasFailure(scenario) ==
  LET afterBefore == FirstFailedHook(scenario.before) = 0
      afterAfter == afterBefore /\ FirstFailedHook(scenario.after) = 0
      afterSteps == afterAfter /\ ~StepsFail(scenario.steps)
  IN  ~afterSteps

\* Mutant: a report without an entry for the file counts as a failure.
ResultsHaveFailures_FailClosed(results, path) ==
  LET m == FirstMatch(results, path)
  IN  IF m = 0 THEN TRUE
      ELSE \E i \in 1..Len(results[m].elements.items) :
             /\ ~IsBackground(results[m].elements.items[i])
             /\ ScenarioHasFailure(results[m].elements.items[i])

\* part_000:699-755 on the parsed array
ResultsHaveFailures(results, path) ==
  LET m == FirstMatch(results, path)
  IN  IF m = 0 THEN FALSE
      ELSE \E i \in 1..Len(results[m].elements.items) :
             /\ ~IsBackground(results[m].elements.items[i])
             /\ ScenarioHasFailure(results[m].elements.items[i])

(***************************************************************************)
(* The report file.  Only kind "array" passes every check of one attempt   *)
(* of waitForValidJsonFile (exists, size > 0, not only whitespace, parses, *)
(* is an array).                                                           *)
(***************************************************************************)
InvalidKinds == {"absent", "empty", "blank", "unparsable", "notArray"}

\* Mutant: an attempt that is content with any file that has text in it.
AttemptValid_AnyText(file) == file.kind \notin {"absent", "empty", "blank"}

\* part_000:256-286
AttemptValid(file) == file.kind = "array"

\* part_000:361-367 and :688-694: the second read parses and is an array
ReadsAsArray(file) == file.kind = "array"

\* part_000:360-510: what parseResultFileForFeature returns once the wait
\* has succeeded, from the content it then reads
ParseAfterWait(file, path) ==
  IF ~ReadsAsArray(file) THEN <<>> ELSE ReconcileResults(file.data, path)

\* part_000:687-759: what hasFeatureFailures returns once the wait has
\* succeeded, from the content it then reads
HasFailuresAfterWait(file, path) ==
  IF ~ReadsAsArray(file) THEN TRUE ELSE ResultsHaveFailures(file.data, path)

\* part_000:355-358
ParseWithoutReport == <<>>

\* part_000:682-685
HasFailuresWithoutReport == TRUE

\* part_000:350-513, the file not changing during the call
parseResultFileForFeature(file, path) ==
  IF ~AttemptValid(file) THEN ParseWithoutReport ELSE ParseAfterWait(file, path)

\* part_000:679-760, the file not changing during the call
hasFeatureFailures(file, path) ==
  IF ~AttemptValid(file) THEN HasFailuresWithoutReport ELSE HasFailuresAfterWait(file, path)

(***************************************************************************)
(* Inputs of the reconciliation: the feature file of the item, and the     *)
(* reports the runner can have written for it.                             *)
(***************************************************************************)
TargetPath == <<"/", "w", "/", "a", ".", "f">>
ReportUri == <<"a", ".", "f">>
OtherUri == <<"b", ".", "f">>

MkScenario(line, before, stepsIsArray, steps, after) ==
  [type |-> "scenario", name |-> "S", line |-> line,
   before |-> MkHooks(before),
   steps |-> [isArray |-> stepsIsArray, items |-> MkSteps(steps, line)],
   after |-> MkHooks(after)]

\* The before and after hook lists of one element: MaxHooks hooks in all.
HookLists ==
  {h \in SeqsUpTo(HookStatuses, MaxHooks) \X SeqsUpTo(HookStatuses, MaxHooks) :
     Len(h[1]) + Len(h[2]) <= MaxHooks}

Scenarios(line) ==
  {MkScenario(line, h[1], TRUE, s, h[2]) :
     h \in HookLists, s \in SeqsUpTo(StepStatuses, MaxSteps)}
  \cup
  {MkScenario(line, h[1], FALSE, <<>>, h[2]) : h \in HookLists}

HooklessScenarios(line) ==
  {MkScenario(line, <<>>, TRUE, s, <<>>) : s \in SeqsUpTo(StepStatuses, MaxSteps)}
  \cup {MkScenario(line, <<>>, FALSE, <<>>, <<>>)}

\* Elements reported before the scenario under study: a background whose
\* step failed, and a scenario that passed.
Background == [MkScenario(2, <<>>, TRUE, <<"failed">>, <<>>) EXCEPT !.type = "background"]
PassedScenario == MkScenario(4, <<"passed">>, TRUE, <<"passed">>, <<"passed">>)

ElementLists ==
  {<<e>> : e \in Scenarios(10)}
  \cup {<<Background, e>> : e \in HooklessScenarios(10)}
  \cup {<<PassedScenario, e>> : e \in HooklessScenarios(10)}

MkEntry(uri, elements) ==
  [uri |-> uri, id |-> <<>>, elements |-> [isArray |-> TRUE, items |-> elements]]

Reports == {<<MkEntry(ReportUri, l)>> : l \in ElementLists}

ValidFiles == {[kind |-> "array", data |-> r] : r \in Reports}
InvalidFiles == {[kind |-> k, data |-> <<>>] : k \in InvalidKinds}

NoResults == [ok |-> FALSE, data |-> <<>>]

NotWaiting ==
  /\ caller = "none"
  /\ pc = "idle"
  /\ attempt = 0
  /\ isValid = FALSE
  /\ readBack = NoResults
  /\ everArray = FALSE

\* parseFeatureFile returns null
NoFeature == [isNull |-> TRUE, name |-> <<>>, lineNumber |-> 0, scenarios |-> <<>>]

\* provideCodeLenses has not been called
NotProvided == [provided |-> FALSE, lenses |-> <<>>]

\* No document is being parsed.
NotParsing ==
  /\ document = <<>>
  /\ featureInfo = NoFeature
  /\ returned = FALSE
  /\ codeLenses = NotProvided

\* cucumberTestExplorer.ts:172: the feature files of the workspace, each
\* named by path.normalize(uri.fsPath)
Files == {"a.f", "b.f"}

\* controller.items.get(featureId) is undefined
NoItem == [id |-> <<>>, label |-> "", line |-> 0, children |-> <<>>]

\* cucumberTestExplorer.ts:18-20: the explorer as its constructor leaves it
NotWatching ==
  /\ fileText = [f \in Files |-> "missing"]
  /\ items = [f \in Files |-> NoItem]
  /\ watchedFiles = {}
  /\ updateTimers = [f \in Files |-> 0]
  /\ pendingTimers = {}
  /\ inflight = {}
  /\ nextTimer = 1

\* cucumberTestExplorer.ts:297-309: the test run of executeTests.  phase is
\* the position of executeTests, allPassed the local of executeBatchTests,
\* statusBar what the status bar shows, ended the number of calls of run.end
MkRun(phase, allPassed, statusBar, ended, outcome) ==
  [phase |-> phase, allPassed |-> allPassed, statusBar |-> statusBar, ended |-> ended,
   outcome |-> outcome]

\* No test run has been created.
NotRunning ==
  /\ requested = <<>>
  /\ run = MkRun("idle", TRUE, "idle", 0, "none")
  /\ sessions = <<>>

\* No run request is being processed.
NotMarking ==
  /\ testItems = <<>>
  /\ cursor = 0
  /\ marks = <<>>
  /\ cancelled = FALSE

(***************************************************************************)
(* Spec: the runner has finished and the report file no longer changes;    *)
(* the test explorer calls the two entry points of the result mapper.      *)
(***************************************************************************)
Init ==
  /\ resultFile \in ValidFiles \cup InvalidFiles
  /\ featureFilePath = TargetPath
  /\ scenarioResults = <<>>
  /\ featureFailed = FALSE
  /\ done = {}
  /\ NotWaiting
  /\ NotWatching
  /\ NotRunning
  /\ NotMarking
  /\ NotParsing

\* cucumberTestExplorer.ts:420-422 (markChildrenFromResults, part_000:526)
ParseResultFileForFeature ==
  /\ UNCHANGED markVars
  /\ UNCHANGED docVars
  /\ UNCHANGED catVars
  /\ UNCHANGED runVars
  /\ done = {}
  /\ scenarioResults' = parseResultFileForFeature(resultFile, featureFilePath)
  /\ done' = done \cup {"parse"}
  /\ UNCHANGED <<resultFile, featureFilePath, featureFailed>>
  /\ UNCHANGED waitVars

\* cucumberTestExplorer.ts:430
HasFeatureFailures ==
  /\ UNCHANGED markVars
  /\ UNCHANGED docVars
  /\ UNCHANGED catVars
  /\ UNCHANGED runVars
  /\ done = {"parse"}
  /\ featureFailed' = hasFeatureFailures(resultFile, featureFilePath)
  /\ done' = done \cup {"hasFailures"}
  /\ UNCHANGED <<resultFile, featureFilePath, scenarioResults>>
  /\ UNCHANGED waitVars

Next == ParseResultFileForFeature \/ HasFeatureFailures

Spec == Init /\ [][Next]_vars

(***************************************************************************)
(* Reading the state for the properties below: the non-background elements *)
(* of the report entry, in order, beside the outcomes returned for them.   *)
(***************************************************************************)
Parsed == "parse" \in done /\ resultFile.kind = "array"

Checked == "hasFailures" \in done /\ resultFile.kind = "array"

ReportElements == resultFile.data[1].elements.items

NonBackground == SelectSeq(ReportElements, LAMBDA e : e.type # "background")

Aligned == Len(scenarioResults) = Len(NonBackground)

NotPassedHook(h) == h.status \notin {"passed", "none"}

AnyNotPassed(hooks) == \E k \in 1..Len(hooks) : NotPassedHook(hooks[k])

IsFirstNotPassed(hooks, k) ==
  NotPassedHook(hooks[k]) /\ \A j \in 1..(k - 1) : ~NotPassedHook(hooks[j])

Statuses(e) == [k \in 1..Len(e.steps.items) |-> e.steps.items[k].status]

ZeroSteps(e) == ~e.steps.isArray \/ Len(e.steps.items) = 0

RealFailure(status) == status \notin {"passed", "skipped"}

IsFirstRealFailure(e, k) ==
  RealFailure(Statuses(e)[k]) /\ \A j \in 1..(k - 1) : ~RealFailure(Statuses(e)[j])

AllSkipped(e) ==
  ~ZeroSteps(e) /\ \A k \in 1..Len(e.steps.items) : Statuses(e)[k] = "skipped"

OnlyPassedAndSkipped(e) ==
  /\ ~ZeroSteps(e)
  /\ \A k \in 1..Len(e.steps.items) : Statuses(e)[k] \in {"passed", "skipped"}
  /\ \E k \in 1..Len(e.steps.items) : Statuses(e)[k] = "passed"

SomeSkipped(e) == \E k \in 1..Len(e.steps.items) : Statuses(e)[k] = "skipped"

HookMessage(hook) ==
  <<"Hook Location: ", hook.location, "Hook failed with status: ", hook.status>>

\* C1: the first before hook with a non-passed result makes the outcome
\* failed with label "Before Hook Failed", message and line those of that
\* hook and of the scenario, whatever the steps of the element are.
C1_BeforeHookFailed ==
  Parsed =>
    /\ Aligned
    /\ \A i \in 1..Len(NonBackground) :
         LET e == NonBackground[i]
             o == scenarioResults[i]
         IN  \A k \in 1..Len(e.before) :
               IsFirstNotPassed(e.before, k) =>
                 /\ ~o.passed
                 /\ o.failedStep.present
                 /\ o.failedStep.name = <<"Before Hook Failed">>
                 /\ o.failedStep.errorMessage = HookMessage(e.before[k])
                 /\ o.failedStep.line = e.line

C1_Witness ==
  /\ Parsed
  /\ Len(ReportElements) = 1
  /\ [k \in 1..Len(ReportElements[1].before) |-> ReportElements[1].before[k].status]
       = <<"passed", "failed">>
  /\ Statuses(ReportElements[1]) = <<"passed", "passed", "passed">>
  /\ scenarioResults[1].failedStep.name = <<"Before Hook Failed">>

\* C2: with no before-hook failure and at least one step, the representative
\* failure is the first step whose status is neither 'passed' nor 'skipped'.
C2_FirstRealFailure ==
  Parsed =>
    /\ Aligned
    /\ \A i \in 1..Len(NonBackground) :
         LET e == NonBackground[i]
             o == scenarioResults[i]
         IN  (~AnyNotPassed(e.before) /\ ~ZeroSteps(e)) =>
               \A k \in 1..Len(e.steps.items) :
                 IsFirstRealFailure(e, k) =>
                   /\ ~o.passed
                   /\ o.failedStep.present
                   /\ o.failedStep.name = <<e.steps.items[k].keyword, e.steps.items[k].name>>
                   /\ o.failedStep.line = e.steps.items[k].line

C2_Witness ==
  /\ Parsed
  /\ Len(ReportElements) = 1
  /\ Statuses(ReportElements[1]) = <<"passed", "skipped", "failed">>
  /\ ~AnyNotPassed(ReportElements[1].before)
  /\ scenarioResults[1].failedStep.name = <<"Given", "step three">>

C5_AllSkippedIsSetupError ==
  Parsed =>
    /\ Aligned
    /\ \A i \in 1..Len(NonBackground) :
         LET e == NonBackground[i]
             o == scenarioResults[i]
         IN  (AllSkipped(e) /\ ~AnyNotPassed(e.before)) =>
               /\ ~o.passed
               /\ o.failedStep.present
               /\ o.failedStep.name = <<"Scenario Setup Error">>
               /\ o.failedStep.line = e.line

C5_Witness ==
  /\ Parsed
  /\ Len(ReportElements) = 1
  /\ Statuses(ReportElements[1]) = <<"skipped", "skipped">>
  /\ ~AnyNotPassed(ReportElements[1].before)
  /\ scenarioResults[1].failedStep.name = <<"Scenario Setup Error">>
  /\ scenarioResults[1].failedStep.line = 10

\* C6: zero steps (missing or empty) and no before-hook failure: failed with
\* label "Empty Scenario".
C6_ZeroStepsIsEmptyScenario ==
  Parsed =>
    /\ Aligned
    /\ \A i \in 1..Len(NonBackground) :
         LET e == NonBackground[i]
             o == scenarioResults[i]
         IN  (ZeroSteps(e) /\ ~AnyNotPassed(e.before)) =>
               /\ ~o.passed
               /\ o.failedStep.present
               /\ o.failedStep.name = <<"Empty Scenario">>

C6_Witness ==
  /\ Parsed
  /\ Len(ReportElements) = 1
  /\ ~ReportElements[1].steps.isArray
  /\ Len(ReportElements[1].before) = 2
  /\ ~AnyNotPassed(ReportElements[1].before)
  /\ scenarioResults[1].failedStep.name = <<"Empty Scenario">>

\* C7: an after hook with a non-passed result makes the scenario failed; the
\* label "After Hook Failed" (of the first such hook) is attached only when
\* nothing was recorded earlier, and an earlier before-hook, step, setup or
\* empty-scenario label stays.
C7_AfterHookFailed ==
  Parsed =>
    /\ Aligned
    /\ \A i \in 1..Len(NonBackground) :
         LET e == NonBackground[i]
             o == scenarioResults[i]
             name == o.failedStep.name
         IN  /\ AnyNotPassed(e.after) => ~o.passed /\ o.failedStep.present
             /\ (o.failedStep.present /\ name = <<"After Hook Failed">>) =>
                  /\ ~AnyNotPassed(e.before)
                  /\ ~ZeroSteps(e)
                  /\ \A k \in 1..Len(e.steps.items) : ~RealFailure(Statuses(e)[k])
                  /\ ~AllSkipped(e)
                  /\ \E k \in 1..Len(e.after) :
                       /\ IsFirstNotPassed(e.after, k)
                       /\ o.failedStep.errorMessage = HookMessage(e.after[k])
             /\ AnyNotPassed(e.after) =>
                  /\ AnyNotPassed(e.before) => name = <<"Before Hook Failed">>
                  /\ (~AnyNotPassed(e.before) /\ ZeroSteps(e)) => name = <<"Empty Scenario">>
                  /\ (~AnyNotPassed(e.before) /\ AllSkipped(e)) => name = <<"Scenario Setup Error">>
                  /\ (~AnyNotPassed(e.before) /\ ~ZeroSteps(e)) =>
                       \A k \in 1..Len(e.steps.items) :
                         IsFirstRealFailure(e, k) =>
                           name = <<e.steps.items[k].keyword, e.steps.items[k].name>>
                  /\ (/\ ~AnyNotPassed(e.before)
                      /\ ~ZeroSteps(e)
                      /\ ~AllSkipped(e)
                      /\ \A k \in 1..Len(e.steps.items) : ~RealFailure(Statuses(e)[k]))
                       => name = <<"After Hook Failed">>

C7_Witness ==
  /\ Parsed
  /\ Len(ReportElements) = 1
  /\ Statuses(ReportElements[1]) = <<"passed", "passed">>
  /\ ~AnyNotPassed(ReportElements[1].before)
  /\ Len(ReportElements[1].after) = 2
  /\ IsFirstNotPassed(ReportElements[1].after, 2)
  /\ ~scenarioResults[1].passed
  /\ scenarioResults[1].failedStep.name = <<"After Hook Failed">>

\* C8: hasFeatureFailures returns true exactly when the reconciler classifies
\* at least one non-background element of the matched entry as failed.
C8_ShortcutAgreesWithReconciler ==
  (Parsed /\ Checked) =>
    (featureFailed <=> \E i \in 1..Len(scenarioResults) : ~scenarioResults[i].passed)

(***************************************************************************)
(* SpecWait: one call of an entry point while the runner may still be      *)
(* writing, replacing or removing the report file.  The steps of           *)
(* waitForValidJsonFile are separated by its delays; the file can change   *)
(* between any two of them, and between the wait and the read after it.    *)
(***************************************************************************)
maxAttempts == 20

FailedScenario == MkScenario(10, <<>>, TRUE, <<"passed", "failed">>, <<>>)

WaitReports ==
  {<<>>,
   <<MkEntry(OtherUri, <<FailedScenario>>)>>,
   <<MkEntry(ReportUri, <<PassedScenario>>)>>,
   <<MkEntry(ReportUri, <<FailedScenario>>)>>,
   <<MkEntry(OtherUri, <<FailedScenario>>), MkEntry(ReportUri, <<PassedScenario>>)>>,
   <<[MkEntry(ReportUri, <<>>) EXCEPT !.elements.isArray = FALSE]>>}

WaitFiles == InvalidFiles \cup {[kind |-> "array", data |-> r] : r \in WaitReports}

InitWait ==
  /\ resultFile \in WaitFiles
  /\ featureFilePath = TargetPath
  /\ scenarioResults = <<>>
  /\ featureFailed = FALSE
  /\ done = {}
  /\ NotWaiting
  /\ NotWatching
  /\ NotRunning
  /\ NotMarking
  /\ NotParsing

\* part_000:353 and :680: the call enters waitForValidJsonFile
Call(entryPoint) ==
  /\ UNCHANGED markVars
  /\ UNCHANGED docVars
  /\ UNCHANGED catVars
  /\ UNCHANGED runVars
  /\ pc = "idle"
  /\ done = {}
  /\ caller' = entryPoint
  /\ pc' = "attempt"
  /\ attempt' = 1
  /\ everArray' = (resultFile.kind = "array")
  /\ UNCHANGED <<resultFile, featureFilePath, scenarioResults, featureFailed, done,
                 isValid, readBack>>

CallParseResultFileForFeature == Call("parse")

CallHasFeatureFailures == Call("hasFailures")

\* part_000:285-286: the attempt finds a JSON array
AttemptSucceeds ==
  /\ UNCHANGED markVars
  /\ UNCHANGED docVars
  /\ UNCHANGED catVars
  /\ UNCHANGED runVars
  /\ pc = "attempt"
  /\ AttemptValid(resultFile)
  /\ isValid' = TRUE
  /\ pc' = "read"
  /\ UNCHANGED <<resultFile, featureFilePath, scenarioResults, featureFailed, done,
                 caller, attempt, readBack, everArray>>

\* part_000:254-293: the attempt fails, the loop waits and goes on
AttemptRetries ==
  /\ UNCHANGED markVars
  /\ UNCHANGED docVars
  /\ UNCHANGED catVars
  /\ UNCHANGED runVars
  /\ pc = "attempt"
  /\ ~AttemptValid(resultFile)
  /\ attempt < maxAttempts
  /\ attempt' = attempt + 1
  /\ UNCHANGED <<resultFile, featureFilePath, scenarioResults, featureFailed, done,
                 caller, pc, isValid, readBack, everArray>>

\* part_000:296-297, then :355-358 or :682-685: the last attempt fails
WaitGivesUp ==
  /\ UNCHANGED markVars
  /\ UNCHANGED docVars
  /\ UNCHANGED catVars
  /\ UNCHANGED runVars
  /\ pc = "attempt"
  /\ ~AttemptValid(resultFile)
  /\ attempt >= maxAttempts
  /\ isValid' = FALSE
  /\ pc' = "returned"
  /\ done' = done \cup {caller}
  /\ IF caller = "parse"
     THEN scenarioResults' = ParseWithoutReport /\ UNCHANGED featureFailed
     ELSE featureFailed' = HasFailuresWithoutReport /\ UNCHANGED scenarioResults
  /\ UNCHANGED <<resultFile, featureFilePath, caller, attempt, readBack, everArray>>

\* part_000:360-512 or :687-759: the file is read again and reconciled
ReadReport ==
  /\ UNCHANGED markVars
  /\ UNCHANGED docVars
  /\ UNCHANGED catVars
  /\ UNCHANGED runVars
  /\ pc = "read"
  /\ readBack' = IF ReadsAsArray(resultFile)
                 THEN [ok |-> TRUE, data |-> resultFile.data]
                 ELSE NoResults
  /\ pc' = "returned"
  /\ done' = done \cup {caller}
  /\ IF caller = "parse"
     THEN /\ scenarioResults' = ParseAfterWait(resultFile, featureFilePath)
          /\ UNCHANGED featureFailed
     ELSE /\ featureFailed' = HasFailuresAfterWait(resultFile, featureFilePath)
          /\ UNCHANGED scenarioResults
  /\ UNCHANGED <<resultFile, featureFilePath, caller, attempt, isValid, everArray>>

\* The runner (or anything else) rewrites the file during the call.
FileChanges ==
  /\ UNCHANGED markVars
  /\ UNCHANGED docVars
  /\ UNCHANGED catVars
  /\ UNCHANGED runVars
  /\ pc \in {"attempt", "read"}
  /\ \E f \in WaitFiles \ {resultFile} :
       /\ resultFile' = f
       /\ everArray' = (everArray \/ f.kind = "array")
  /\ UNCHANGED <<featureFilePath, scenarioResults, featureFailed, done,
                 caller, pc, attempt, isValid, readBack>>

NextWait ==
  \/ CallParseResultFileForFeature
  \/ CallHasFeatureFailures
  \/ AttemptSucceeds
  \/ AttemptRetries
  \/ WaitGivesUp
  \/ ReadReport
  \/ FileChanges

SpecWait == InitWait /\ [][NextWait]_vars

NoEntryFor(data, path) ==
  \A i \in 1..Len(data) : ~isSameFeaturePath(path, FeaturePathOf(data[i]))

\* C9: hasFeatureFailures returns false when the array it read holds no entry
\* matching the target file, and true when the file never held a JSON array
\* during the call, which then used up all its attempts.
C9_MissingEntryAndNeverValid ==
  (pc = "returned" /\ caller = "hasFailures") =>
    /\ (readBack.ok /\ NoEntryFor(readBack.data, featureFilePath)) => ~featureFailed
    /\ ~everArray => (featureFailed /\ attempt = maxAttempts /\ ~readBack.ok)

C9_Witness ==
  /\ pc = "returned"
  /\ caller = "hasFailures"
  /\ readBack.ok
  /\ readBack.data = <<MkEntry(OtherUri, <<FailedScenario>>)>>
  /\ ~featureFailed

(***************************************************************************)
(* SpecPath: the same two calls, on reports whose single entry holds one   *)
(* failed scenario and whose file identity, like the path of the feature   *)
(* file, ranges over relative, absolute and URI forms.                     *)
(***************************************************************************)
MaxSegments == 2

SegmentNames == {<<"a">>, <<"A">>, <<"b">>}

PathPrefixes ==
  {<<>>, <<"/">>, <<".", "/">>, <<"f", "i", "l", "e", ":">>,
   <<"f", "i", "l", "e", ":", "/", "/">>}

GeneratedPaths ==
  {p \o Join(segments) :
     p \in PathPrefixes, segments \in SeqsUpTo(SegmentNames, MaxSegments) \ {<<>>}}

\* /home/u/proj/src/test/resources/Foo.feature
AbsoluteFoo ==
  <<"/", "h", "o", "m", "e", "/", "u", "/", "p", "r", "o", "j", "/", "s",
    "r", "c", "/", "t", "e", "s", "t", "/", "r", "e", "s", "o", "u", "r",
    "c", "e", "s", "/", "F", "o", "o", ".", "f", "e", "a", "t", "u", "r",
    "e">>

\* src/test/resources/foo.feature
RelativeFoo ==
  <<"s", "r", "c", "/", "t", "e", "s", "t", "/", "r", "e", "s", "o", "u",
    "r", "c", "e", "s", "/", "f", "o", "o", ".", "f", "e", "a", "t", "u",
    "r", "e">>

\* file:///home/u/proj/src/test/resources/foo.feature
FileUriFoo ==
  <<"f", "i", "l", "e", ":", "/", "/", "/", "h", "o", "m", "e", "/", "u",
    "/", "p", "r", "o", "j", "/", "s", "r", "c", "/", "t", "e", "s", "t",
    "/", "r", "e", "s", "o", "u", "r", "c", "e", "s", "/", "f", "o", "o",
    ".", "f", "e", "a", "t", "u", "r", "e">>

\* C:\w\a\b and .\a\b
WindowsPath == <<"C", ":", "\\", "w", "\\", "a", "\\", "b">>
DotBackslashPath == <<".", "\\", "a", "\\", "b">>

PathInputs ==
  GeneratedPaths \cup {AbsoluteFoo, RelativeFoo, FileUriFoo, WindowsPath, DotBackslashPath}

InitPath ==
  /\ featureFilePath \in PathInputs
  /\ \E uri \in PathInputs :
       resultFile = [kind |-> "array", data |-> <<MkEntry(uri, <<FailedScenario>>)>>]
  /\ scenarioResults = <<>>
  /\ featureFailed = FALSE
  /\ done = {}
  /\ NotWaiting
  /\ NotWatching
  /\ NotRunning
  /\ NotMarking
  /\ NotParsing

SpecPath == InitPath /\ [][Next]_vars

ReportIdentity == resultFile.data[1].uri

EntryMatched == Len(scenarioResults) = 1

\* C10 as stated: the entry matches whenever the normalized identities are
\* equal or the report identity ends with '/' + the target; so the relative
\* target src/test/resources/foo.feature matches the two longer identities.
C10_ReportEndsWithTarget ==
  Parsed =>
    LET target == normalizePath(featureFilePath)
        report == normalizePath(ReportIdentity)
    IN  /\ (target = report \/ EndsWith(report, <<"/">> \o target)) => EntryMatched
        /\ (featureFilePath = RelativeFoo /\ ReportIdentity \in {AbsoluteFoo, FileUriFoo})
             => EntryMatched

\* C10 amended: the entry matches whenever the normalized identities are
\* equal or the target ends with '/' + the report identity; so the absolute
\* target /home/u/proj/src/test/resources/Foo.feature matches the report
\* identities src/test/resources/foo.feature and
\* file:///home/u/proj/src/test/resources/foo.feature.
C10_TargetEndsWithReport ==
  Parsed =>
    LET target == normalizePath(featureFilePath)
        report == normalizePath(ReportIdentity)
    IN  /\ (target = report \/ EndsWith(target, <<"/">> \o report)) => EntryMatched
        /\ (featureFilePath = AbsoluteFoo /\ ReportIdentity \in {RelativeFoo, FileUriFoo})
             => EntryMatched

C10_Witness ==
  /\ Parsed
  /\ featureFilePath = AbsoluteFoo
  /\ ReportIdentity = RelativeFoo
  /\ EntryMatched
  /\ ~scenarioResults[1].passed

\* The segments of a normalized identity, its base name and the directory
\* segment next to it.
Segments(p) == Split(normalizePath(p))

BaseName(p) == Segments(p)[Len(Segments(p))]

HasParent(p) == Len(Segments(p)) >= 2

ParentSegment(p) == Segments(p)[Len(Segments(p)) - 1]

SameNameOtherDirectory(p, q) ==
  /\ HasParent(p)
  /\ HasParent(q)
  /\ BaseName(p) = BaseName(q)
  /\ ParentSegment(p) # ParentSegment(q)

\* C11: two identities with the same base name, each with a parent directory
\* segment, whose parent segments differ after normalization never match: the
\* entry is not taken for the target, and the test is false with the
\* arguments swapped too.
C11_SameNameOtherDirectoryNeverMatches ==
  (Parsed /\ SameNameOtherDirectory(featureFilePath, ReportIdentity)) =>
    /\ ~EntryMatched
    /\ ~isSameFeaturePath(ReportIdentity, featureFilePath)

C11_Witness ==
  /\ Parsed
  /\ featureFilePath = <<"/", "b", "/", "a">>
  /\ ReportIdentity = <<"a", "/", "a">>
  /\ SameNameOtherDirectory(featureFilePath, ReportIdentity)
  /\ ~EntryMatched

(***************************************************************************)
(* SpecEntries: reports of one or two per-file entries, each with up to    *)
(* MaxElements elements.  Element j of entry i is reported at line         *)
(* 10 * i + j, so an outcome tells which entry and which element it came   *)
(* from.  An entry names its file by uri or, with an empty uri, by id; an  *)
(* entry may lack its elements array.                                      *)
(***************************************************************************)
MaxElements == 2

ElementKinds == {"background", "passed", "failed"}

MkElement(kind, line) ==
  IF kind = "background"
  THEN [MkScenario(line, <<>>, TRUE, <<"failed">>, <<>>) EXCEPT !.type = "background"]
  ELSE MkScenario(line, <<>>, TRUE, <<kind>>, <<>>)

MkElements(kinds, entryIndex) ==
  [j \in 1..Len(kinds) |-> MkElement(kinds[j], 10 * entryIndex + j)]

EntryElements(entryIndex) ==
  {[isArray |-> TRUE, items |-> MkElements(kinds, entryIndex)] :
     kinds \in SeqsUpTo(ElementKinds, MaxElements)}
  \cup {[isArray |-> FALSE, items |-> <<>>]}

EntryIdentities ==
  {[uri |-> ReportUri, id |-> <<>>],
   [uri |-> OtherUri, id |-> ReportUri],
   [uri |-> <<>>, id |-> ReportUri]}

Entries(entryIndex) ==
  {[uri |-> n.uri, id |-> n.id, elements |-> l] :
     n \in EntryIdentities, l \in EntryElements(entryIndex)}

EntryReports ==
  {<<e>> : e \in Entries(1)} \cup {<<e, f>> : e \in Entries(1), f \in Entries(2)}

InitEntries ==
  /\ resultFile \in {[kind |-> "array", data |-> r] : r \in EntryReports}
  /\ featureFilePath = TargetPath
  /\ scenarioResults = <<>>
  /\ featureFailed = FALSE
  /\ done = {}
  /\ NotWaiting
  /\ NotWatching
  /\ NotRunning
  /\ NotMarking
  /\ NotParsing

SpecEntries == InitEntries /\ [][Next]_vars

\* The entries of the report that can be taken for the target file: the
\* identity matches and the entry carries an elements array.
Candidates ==
  {i \in 1..Len(resultFile.data) :
     /\ isSameFeaturePath(featureFilePath,
                          IF resultFile.data[i].uri # <<>> THEN resultFile.data[i].uri
                          ELSE resultFile.data[i].id)
     /\ resultFile.data[i].elements.isArray}

FirstCandidate == CHOOSE i \in Candidates : \A j \in Candidates : i <= j

NotBackground(e) == e.type # "background"

\* C12: the outcomes are those of the elements not tagged 'background' of the
\* first entry in report order that matches the target file, one outcome per
\* such element and in the elements' order; background elements and the
\* other entries yield none.
C12_OneOutcomePerElementOfFirstMatch ==
  Parsed =>
    IF Candidates = {} THEN scenarioResults = <<>>
    ELSE LET kept == SelectSeq(resultFile.data[FirstCandidate].elements.items, NotBackground)
         IN  /\ Len(scenarioResults) = Len(kept)
             /\ \A i \in 1..Len(kept) :
                  /\ scenarioResults[i].line = kept[i].line
                  /\ scenarioResults[i].passed = (kept[i].steps.items[1].status = "passed")

C12_Witness ==
  /\ Parsed
  /\ Len(resultFile.data) = 2
  /\ Candidates = {1, 2}
  /\ resultFile.data[1].elements.items = MkElements(<<"background", "failed">>, 1)
  /\ resultFile.data[2].elements.items = MkElements(<<"passed">>, 2)
  /\ Len(scenarioResults) = 1
  /\ scenarioResults[1].line = 12
  /\ ~scenarioResults[1].passed

(***************************************************************************)
(* The test catalog of one feature file, as createOrUpdateTest builds it.  *)
(* A node id is the tuple of the parts of the id string:                   *)
(*   <<f>>                                 "f"                              *)
(*   <<f, "scenario", 5>>                  "f:scenario:5"                   *)
(*   <<f, "scenario", 5, "example", 10>>   "f:scenario:5:example:10"        *)
(*   <<f, "rule", 10>>                     "f:rule:10"                      *)
(* The file has two scenarios (lines 3 and 6), an outline (line 9) whose   *)
(* example rows start at line 13, and a rule (line 20) with two scenarios  *)
(* (lines 22 and 25).  Every node carries the uri of the file.             *)
(***************************************************************************)
MaxRows == 2

featureId == "a.f"

FeatureItem == <<featureId>>

ScenarioItem(lineNumber) == <<featureId, "scenario", lineNumber>>

ExampleItem(scenarioLine, lineNumber) ==
  <<featureId, "scenario", scenarioLine, "example", lineNumber>>

RuleItem(lineNumber) == <<featureId, "rule", lineNumber>>

OutlineLine == 9

RowLines == [i \in 1..MaxRows |-> 12 + i]

RuleLine == 20

PlainLines == <<3, 6>>

NestedLines == <<22, 25>>

\* cucumberTestExplorer.ts:196-258: children in the order they are added
Children(item) ==
  IF item = FeatureItem
  THEN [i \in 1..Len(PlainLines) |-> ScenarioItem(PlainLines[i])]
       \o <<ScenarioItem(OutlineLine)>> \o <<RuleItem(RuleLine)>>
  ELSE IF item = ScenarioItem(OutlineLine)
  THEN [i \in 1..MaxRows |-> ExampleItem(OutlineLine, RowLines[i])]
  ELSE IF item = RuleItem(RuleLine)
  THEN [i \in 1..Len(NestedLines) |-> ScenarioItem(NestedLines[i])]
  ELSE <<>>

Range(f) == {f[i] : i \in 1..Len(f)}

Nodes ==
  {FeatureItem} \cup Range(Children(FeatureItem))
  \cup Range(Children(ScenarioItem(OutlineLine)))
  \cup Range(Children(RuleItem(RuleLine)))

\* part_000:541-544: child.id.split(':scenario:'), then the digits up to ':'
HasScenarioPart(id) == Len(id) >= 3 /\ id[2] = "scenario"

ScenarioLineOf(id) == id[3]

\* part_000:556-558: exampleChild.id.split(':example:')
HasExamplePart(id) == Len(id) >= 5 /\ id[4] = "example"

ExampleLineOf(id) == id[5]

(***************************************************************************)
(* markChildrenFromResults.  A mark is [status, messages]: status is       *)
(* "none" (nothing recorded), "started", "passed" or "failed".  A message  *)
(* is [heading, scenarioLine, label, detail, line]: the text is made of    *)
(* the heading 'Scenario: <name> (line <scenarioLine>)' (error messages of *)
(* the requested item only), the label and the detail; line is the         *)
(* zero-based line of the message's location, -1 without a location.       *)
(***************************************************************************)
MkMessage(heading, scenarioLine, label, detail, line) ==
  [heading |-> heading, scenarioLine |-> scenarioLine, label |-> label,
   detail |-> detail, line |-> line]

Unmarked == [status |-> "none", messages |-> <<>>]

Started == [status |-> "started", messages |-> <<>>]

MarkPassed == [status |-> "passed", messages |-> <<>>]

MarkFailed(messages) == [status |-> "failed", messages |-> messages]

\* part_000:582-584 and :647-649: the texts that name.includes looks for
ScenarioLevelMarkers == {"Hook Failed", "Scenario Setup Error", "Empty Scenario"}

\* String.prototype.includes, on the texts that occur in failure labels:
\* the labels the reconciler makes up, and step names that quote them
TextsIncluding(marker) ==
  CASE marker = "Hook Failed" ->
         {"Before Hook Failed", "After Hook Failed", "the log shows Hook Failed"}
    [] marker = "Scenario Setup Error" ->
         {"Scenario Setup Error", "a Scenario Setup Error is shown"}
    [] marker = "Empty Scenario" ->
         {"Empty Scenario", "an Empty Scenario is saved"}
    [] OTHER -> {}

Includes(text, marker) == text \in TextsIncluding(marker)

\* part_000:581-584 and :646-649
isScenarioLevelError(failedStep) ==
  \E i \in 1..Len(failedStep.name), marker \in ScenarioLevelMarkers :
    Includes(failedStep.name[i], marker)

\* x || 1 on a line number
OrOne(x) == IF x = 0 THEN 1 ELSE x

\* part_000:586-588 and :656-665
TargetLine(scenarioResult) ==
  IF isScenarioLevelError(scenarioResult.failedStep)
  THEN OrOne(scenarioResult.line) - 1
  ELSE (IF scenarioResult.failedStep.line # 0 THEN scenarioResult.failedStep.line
        ELSE OrOne(scenarioResult.line)) - 1

\* part_000:574-598, for a result that did not pass
ChildMessage(scenarioResult) ==
  IF scenarioResult.failedStep.present
  THEN MkMessage(<<>>, 0, scenarioResult.failedStep.name,
                 scenarioResult.failedStep.errorMessage, TargetLine(scenarioResult))
  ELSE MkMessage(<<>>, 0, <<"Scenario failed">>, <<>>, -1)

NoMatch == [found |-> FALSE, scenario |-> <<>>, example |-> <<>>]

\* part_000:552-565: the example children of child at the result's line
ExampleHits(child, line) ==
  {j \in 1..Len(Children(child)) :
     /\ HasExamplePart(Children(child)[j])
     /\ ExampleLineOf(Children(child)[j]) = line}

\* part_000:537-566: what child gives for the result's line
ChildHit(child, line) ==
  /\ HasScenarioPart(child)
  /\ (ScenarioLineOf(child) = line \/ ExampleHits(child, line) # {})

\* part_000:534-567
MatchChild(item, line) ==
  LET kids == Children(item)
      hits == {k \in 1..Len(kids) : ChildHit(kids[k], line)}
  IN  IF hits = {} THEN NoMatch
      ELSE LET k == CHOOSE h \in hits : \A g \in hits : h <= g
               child == kids[k]
           IN  IF ScenarioLineOf(child) = line
               THEN [found |-> TRUE, scenario |-> child, example |-> child]
               ELSE LET js == ExampleHits(child, line)
                        j == CHOOSE h \in js : \A g \in js : h <= g
                    IN  [found |-> TRUE, scenario |-> child,
                         example |-> Children(child)[j]]

\* part_000:529-531
NewAggregates(item) ==
  [c \in Range(Children(item)) |-> [passed |-> TRUE, matched |-> FALSE, message |-> <<>>]]

\* part_000:606-614
UpdateAggregate(aggregate, scenarioResult) ==
  IF scenarioResult.passed
  THEN [aggregate EXCEPT !.matched = TRUE]
  ELSE [passed |-> FALSE, matched |-> TRUE, message |-> <<ChildMessage(scenarioResult)>>]

RECURSIVE MarkResults(_, _, _, _, _)
\* part_000:533-615: st is [marks, aggregates]
MarkResults(results, i, item, m, aggregates) ==
  IF i > Len(results) THEN [marks |-> m, aggregates |-> aggregates]
  ELSE LET scenarioResult == results[i]
           hit == MatchChild(item, scenarioResult.line)
       IN  IF ~hit.found THEN MarkResults(results, i + 1, item, m, aggregates)
           ELSE MarkResults(results, i + 1, item,
                  [m EXCEPT ![hit.example] =
                     IF scenarioResult.passed THEN MarkPassed
                     ELSE MarkFailed(<<ChildMessage(scenarioResult)>>)],
                  [aggregates EXCEPT ![hit.scenario] =
                     UpdateAggregate(aggregates[hit.scenario], scenarioResult)])

\* part_000:617-628
MarkAggregates(item, m, aggregates) ==
  [n \in DOMAIN m |->
     IF n \in DOMAIN aggregates /\ aggregates[n].matched
     THEN IF aggregates[n].passed THEN MarkPassed
          ELSE MarkFailed(aggregates[n].message)
     ELSE m[n]]

\* part_000:515-632
markChildrenFromResults(item, m, file, path) ==
  LET st == MarkResults(parseResultFileForFeature(file, path), 1, item, m,
                        NewAggregates(item))
  IN  MarkAggregates(item, st.marks, st.aggregates)

\* part_000:644-670: one message per failed result that has a failedStep
ErrorMessage(scenarioResult) ==
  MkMessage(<<"Scenario: ", scenarioResult.name>>, scenarioResult.line,
            scenarioResult.failedStep.name, scenarioResult.failedStep.errorMessage,
            TargetLine(scenarioResult))

IsReportedFailure(scenarioResult) ==
  ~scenarioResult.passed /\ scenarioResult.failedStep.present

RECURSIVE ErrorMessages(_)
ErrorMessages(results) ==
  IF Len(results) = 0 THEN <<>>
  ELSE IF IsReportedFailure(Head(results))
  THEN <<ErrorMessage(Head(results))>> \o ErrorMessages(Tail(results))
  ELSE ErrorMessages(Tail(results))

\* part_000:634-677
getTestErrorMessages(file, path) == ErrorMessages(parseResultFileForFeature(file, path))

(***************************************************************************)
(* SpecMark: executeBatchTests from the moment the runner has returned the *)
(* path of its report.  The report has one entry for the file with, at     *)
(* each line where the catalog has a plain scenario or an example row, no  *)
(* element, an element that passed or an element whose first step failed;  *)
(* or it is one of a few other reports and files.                          *)
(***************************************************************************)
ReportLines ==
  PlainLines \o RowLines \o NestedLines

Outcomes == {"absent", "passed", "failed"}

IsReported(e) == e.kind # "absent"

\* The elements of the report for outcomes f, in line order.
ReportedElements(f) ==
  LET all == [i \in 1..Len(ReportLines) |-> [kind |-> f[i], line |-> ReportLines[i]]]
      shown == SelectSeq(all, IsReported)
  IN  [i \in 1..Len(shown) |-> MkElement(shown[i].kind, shown[i].line)]

CatalogReports ==
  {<<MkEntry(ReportUri, ReportedElements(f))>> :
     f \in [1..Len(ReportLines) -> Outcomes]}

\* An element at the outline's own line, an element at a line the catalog
\* does not have, and a report of another file.
OtherReports ==
  {<<MkEntry(ReportUri, <<MkElement(k, OutlineLine)>>)>> : k \in {"passed", "failed"}}
  \cup {<<MkEntry(ReportUri, <<MkElement(k, 40)>>)>> : k \in {"passed", "failed"}}
  \cup {<<MkEntry(OtherUri, <<MkElement(k, 3)>>)>> : k \in {"passed", "failed"}}

MarkFiles ==
  {[kind |-> "array", data |-> r] : r \in CatalogReports \cup OtherReports}
  \cup InvalidFiles

\* cucumberTestExplorer.ts:300-303: the requested items, none with a
\* requested ancestor
Requests ==
  {<<FeatureItem>>,
   <<RuleItem(RuleLine)>>,
   <<ScenarioItem(OutlineLine)>>,
   <<ScenarioItem(PlainLines[1])>>,
   <<ScenarioItem(PlainLines[1]), ScenarioItem(PlainLines[2])>>,
   <<ExampleItem(OutlineLine, RowLines[1])>>}

\* cucumberTestExplorer.ts:342-344 and :410-413
InitMark ==
  /\ resultFile \in MarkFiles
  /\ featureFilePath = TargetPath
  /\ scenarioResults = <<>>
  /\ featureFailed = FALSE
  /\ done = {}
  /\ NotWaiting
  /\ NotWatching
  /\ NotParsing
  /\ testItems \in Requests
  /\ cursor = 1
  /\ marks = [n \in Nodes |-> IF n \in Range(testItems) THEN Started ELSE Unmarked]
  /\ cancelled = FALSE
  /\ requested = testItems
  /\ run = MkRun("processing", TRUE, "running", 0, "resultFile")
  /\ sessions = <<>>

\* cucumberTestExplorer.ts:432-444
MarkRequested(failed, errorMessages) ==
  IF failed
  THEN IF Len(errorMessages) > 0 THEN MarkFailed(errorMessages)
       ELSE MarkFailed(<<MkMessage(<<>>, 0, <<"errors.testFailed">>, <<>>, -1)>>)
  ELSE MarkPassed

\* A loop that never looks at the token.
isCancellationRequested_Never(token) == FALSE

\* cucumberTestExplorer.ts:415: the test at the head of every iteration
isCancellationRequested(token) == token

\* cucumberTestExplorer.ts:414-445: one iteration of the loop over testItems
ProcessItem ==
  /\ UNCHANGED docVars
  /\ UNCHANGED catVars
  /\ UNCHANGED <<requested, sessions>>
  /\ cursor >= 1
  /\ cursor <= Len(testItems)
  /\ ~isCancellationRequested(cancelled)
  /\ LET item == testItems[cursor]
         withChildren ==
           IF Len(Children(item)) > 0
           THEN markChildrenFromResults(item, marks, resultFile, featureFilePath)
           ELSE marks
         failed == hasFeatureFailures(resultFile, featureFilePath)
     IN  /\ featureFailed' = failed
         /\ run' = [run EXCEPT !.allPassed = @ /\ ~failed]
         /\ marks' = [withChildren EXCEPT ![item] =
                        MarkRequested(failed, getTestErrorMessages(resultFile, featureFilePath))]
         /\ scenarioResults' =
              IF Len(Children(item)) > 0 \/ failed
              THEN parseResultFileForFeature(resultFile, featureFilePath)
              ELSE scenarioResults
  /\ cursor' = cursor + 1
  /\ UNCHANGED <<resultFile, featureFilePath, done, testItems, cancelled>>
  /\ UNCHANGED waitVars

\* cucumberTestExplorer.ts:296-299: the user cancels the run while the loop
\* is between two iterations; the token of the request is set
RequestCancellation ==
  /\ UNCHANGED docVars
  /\ UNCHANGED catVars
  /\ UNCHANGED runVars
  /\ cursor >= 1
  /\ cursor <= Len(testItems)
  /\ ~cancelled
  /\ cancelled' = TRUE
  /\ UNCHANGED <<resultFile, featureFilePath, scenarioResults, featureFailed, done,
                 testItems, cursor, marks>>
  /\ UNCHANGED waitVars

\* cucumberTestExplorer.ts:415-417: the token is cancelled, the loop is left
Cancel ==
  /\ UNCHANGED docVars
  /\ UNCHANGED catVars
  /\ UNCHANGED runVars
  /\ cursor >= 1
  /\ cursor <= Len(testItems)
  /\ isCancellationRequested(cancelled)
  /\ cursor' = Len(testItems) + 1
  /\ UNCHANGED <<resultFile, featureFilePath, scenarioResults, featureFailed, done,
                 testItems, marks, cancelled>>
  /\ UNCHANGED waitVars

\* cucumberTestExplorer.ts:448 and :466, part_000:762-770: the file is removed
\* and executeBatchTests returns allPassed
CleanupResultFile ==
  /\ UNCHANGED docVars
  /\ UNCHANGED catVars
  /\ UNCHANGED <<requested, sessions>>
  /\ run' = [run EXCEPT !.phase = "returned"]
  /\ cursor = Len(testItems) + 1
  /\ resultFile' = [kind |-> "absent", data |-> <<>>]
  /\ cursor' = 0
  /\ UNCHANGED <<featureFilePath, scenarioResults, featureFailed, done, testItems, marks,
                 cancelled>>
  /\ UNCHANGED waitVars

NextMark == ProcessItem \/ RequestCancellation \/ Cancel \/ CleanupResultFile

SpecMark == InitMark /\ [][NextMark]_vars

\* The loop is running or has just been left: the report is still there.
InRun == cursor >= 1

\* The k-th requested item went through its iteration of the loop.
Processed(k) ==
  InRun /\ k \in 1..Len(testItems) /\ cursor > k
  /\ marks[testItems[k]].status # "started"

\* The elements the report has for the file.
FileElements ==
  IF resultFile.kind = "array" /\ Candidates # {}
  THEN resultFile.data[FirstCandidate].elements.items
  ELSE <<>>

ReportedAt(line) ==
  \E i \in 1..Len(FileElements) :
    NotBackground(FileElements[i]) /\ FileElements[i].line = line

FailedAt(line) ==
  \E i \in 1..Len(FileElements) :
    /\ NotBackground(FileElements[i])
    /\ FileElements[i].line = line
    /\ FileElements[i].steps.items[1].status # "passed"

StatusAt(line) == IF FailedAt(line) THEN "failed" ELSE "passed"

Outline == ScenarioItem(OutlineLine)

Row(i) == ExampleItem(OutlineLine, RowLines[i])

MatchedRows == {i \in 1..MaxRows : ReportedAt(RowLines[i])}

\* C13: whichever node holding the rows was requested (the feature or the
\* outline itself), each example row with a report element at its line is
\* marked with that element's outcome, and the outline is marked failed iff a
\* matched row failed, passed iff a row matched and all matched rows passed.
C13_RowsAndOutlineMarked ==
  \A k \in 1..Len(testItems) :
    (Processed(k) /\ testItems[k] \in {FeatureItem, Outline} /\ MatchedRows # {}) =>
      /\ \A i \in MatchedRows : marks[Row(i)].status = StatusAt(RowLines[i])
      /\ marks[Outline].status = "failed" <=> \E i \in MatchedRows : FailedAt(RowLines[i])
      /\ marks[Outline].status = "passed" <=>
           (MatchedRows # {} /\ \A i \in MatchedRows : ~FailedAt(RowLines[i]))

IsPlain(item) == \E i \in 1..Len(PlainLines) : item = ScenarioItem(PlainLines[i])

\* C14: when plain scenarios of the file are requested as separate items of
\* one batch, each is marked with the outcome of the report element at its
\* own line, whatever the other scenarios of the file did.
C14_PlainScenarioOwnOutcome ==
  \A k \in 1..Len(testItems) :
    (Processed(k) /\ Len(testItems) >= 2 /\ IsPlain(testItems[k])
       /\ ReportedAt(ScenarioLineOf(testItems[k]))) =>
      marks[testItems[k]].status = StatusAt(ScenarioLineOf(testItems[k]))

\* C15: when the feature is run, a failing element at the line of a scenario
\* nested in the rule marks that scenario and the rule failed; a nested
\* scenario whose element passed is marked passed.
C15_NestedScenariosMarked ==
  (Processed(1) /\ testItems[1] = FeatureItem) =>
    \A i \in 1..Len(NestedLines) :
      LET line == NestedLines[i]
      IN  /\ FailedAt(line) =>
               /\ marks[ScenarioItem(line)].status = "failed"
               /\ marks[RuleItem(RuleLine)].status = "failed"
          /\ (ReportedAt(line) /\ ~FailedAt(line)) =>
               marks[ScenarioItem(line)].status = "passed"

\* The lines at which a report element maps to the node: its own line or
\* the line of one of its descendants.
RECURSIVE LinesOf(_)
LinesOf(item) ==
  (IF HasExamplePart(item) THEN {ExampleLineOf(item)}
   ELSE IF HasScenarioPart(item) THEN {ScenarioLineOf(item)}
   ELSE {})
  \cup UNION {LinesOf(c) : c \in Range(Children(item))}

RECURSIVE Descendants(_)
Descendants(item) ==
  Range(Children(item)) \cup UNION {Descendants(c) : c \in Range(Children(item))}

Unmapped(item) == \A line \in LinesOf(item) : ~ReportedAt(line)

\* C16: with a valid report, a node of the request (a requested item or one
\* of its descendants) that no report element maps to is marked neither
\* passed nor failed.
C16_UnmappedNodeNotMarked ==
  \A k \in 1..Len(testItems) :
    (Processed(k) /\ resultFile.kind = "array") =>
      \A n \in {testItems[k]} \cup Descendants(testItems[k]) :
        Unmapped(n) => marks[n].status \notin {"passed", "failed"}

FailedRows == {i \in MatchedRows : FailedAt(RowLines[i])}

\* C17: when the feature is run and several example rows of the outline
\* fail, the outline carries one message, that of the first failing row.
C17_FirstFailureMessage ==
  (Processed(1) /\ testItems[1] = FeatureItem /\ Cardinality(FailedRows) >= 2) =>
    LET first == CHOOSE i \in FailedRows : \A j \in FailedRows : i <= j
    IN  /\ Len(marks[Outline].messages) = 1
        /\ marks[Outline].messages = marks[Row(first)].messages

(***************************************************************************)
(* parseFeatureFile.  A document is the sequence of its lines (the result  *)
(* of text.split), a line a sequence of tokens: " " is a run of            *)
(* whitespace, "Feature:", "Scenario:", "Scenario Outline:", "Examples:"   *)
(* and "|" are those literal texts, any other token is other text.         *)
(***************************************************************************)
MaxLines == 4

RECURSIVE TrimStart(_)
TrimStart(line) ==
  IF Len(line) > 0 /\ Head(line) = " " THEN TrimStart(Tail(line)) ELSE line

RECURSIVE TrimEnd(_)
TrimEnd(line) ==
  IF Len(line) > 0 /\ line[Len(line)] = " "
  THEN TrimEnd(SubSeq(line, 1, Len(line) - 1))
  ELSE line

\* String.prototype.trim
Trim(line) == TrimEnd(TrimStart(line))

\* line.startsWith(keyword), for a keyword or '|'
LineStartsWith(line, keyword) == Len(line) > 0 /\ Head(line) = keyword

\* line.substring(keyword.length).trim()
AfterKeyword(line) == Trim(Tail(line))

NoRowInfo == [found |-> FALSE, scenarioLine |-> 0]

\* Mutant: the header row is taken for a data row too.
findExampleRowInfo_HeaderToo(lines, currentLine) ==
  LET above == {i \in 1..currentLine : LineStartsWith(Trim(lines[i]), "Examples:")}
  IN  IF above = {} THEN NoRowInfo
      ELSE LET examplesLine == CHOOSE i \in above : \A j \in above : j <= i
               rows == {i \in (examplesLine + 1)..Len(lines) :
                          LineStartsWith(Trim(lines[i]), "|")}
               outlines == {i \in 1..examplesLine :
                              LineStartsWith(Trim(lines[i]), "Scenario Outline:")}
           IN  IF rows = {} THEN NoRowInfo
               ELSE IF currentLine < (CHOOSE i \in rows : \A j \in rows : i <= j)
               THEN NoRowInfo
               ELSE IF outlines = {} THEN NoRowInfo
               ELSE [found |-> TRUE,
                     scenarioLine |-> CHOOSE i \in outlines : \A j \in outlines : j <= i]

\* Mutant: the header row is looked for among the untrimmed lines.
findExampleRowInfo_UntrimmedHeader(lines, currentLine) ==
  LET above == {i \in 1..currentLine : LineStartsWith(Trim(lines[i]), "Examples:")}
  IN  IF above = {} THEN NoRowInfo
      ELSE LET examplesLine == CHOOSE i \in above : \A j \in above : j <= i
               rows == {i \in (examplesLine + 1)..Len(lines) :
                          LineStartsWith(lines[i], "|")}
               outlines == {i \in 1..examplesLine :
                              LineStartsWith(Trim(lines[i]), "Scenario Outline:")}
           IN  IF rows = {} THEN NoRowInfo
               ELSE IF currentLine <= (CHOOSE i \in rows : \A j \in rows : i <= j)
               THEN NoRowInfo
               ELSE IF outlines = {} THEN NoRowInfo
               ELSE [found |-> TRUE,
                     scenarioLine |-> CHOOSE i \in outlines : \A j \in outlines : j <= i]

\* extension.ts:437-477; currentLine and the lines found are 1-based here
findExampleRowInfo(lines, currentLine) ==
  LET above == {i \in 1..currentLine : LineStartsWith(Trim(lines[i]), "Examples:")}
  IN  IF above = {} THEN NoRowInfo
      ELSE LET examplesLine == CHOOSE i \in above : \A j \in above : j <= i
               rows == {i \in (examplesLine + 1)..Len(lines) :
                          LineStartsWith(Trim(lines[i]), "|")}
               outlines == {i \in 1..examplesLine :
                              LineStartsWith(Trim(lines[i]), "Scenario Outline:")}
           IN  IF rows = {} THEN NoRowInfo
               ELSE IF currentLine <= (CHOOSE i \in rows : \A j \in rows : i <= j)
               THEN NoRowInfo
               ELSE IF outlines = {} THEN NoRowInfo
               ELSE [found |-> TRUE,
                     scenarioLine |-> CHOOSE i \in outlines : \A j \in outlines : j <= i]

\* extension.ts:204-207
StartOfParse ==
  [featureName |-> <<>>, featureLineNumber |-> 0, scenarios |-> <<>>]

MkScenarioInfo(name, lineNumber) ==
  [name |-> name, lineNumber |-> lineNumber, examples |-> <<>>]

\* extension.ts:231-240: currentScenario is the scenario pushed last
AddExampleRow(lines, lineNumber, st) ==
  IF Len(st.scenarios) > 0 /\ lineNumber > 1
     /\ findExampleRowInfo(lines, lineNumber).found
  THEN [st EXCEPT !.scenarios[Len(st.scenarios)].examples =
          Append(@, [lineNumber |-> lineNumber, data |-> Trim(lines[lineNumber])])]
  ELSE st

\* extension.ts:212-214
SetFeature(line, lineNumber, st) ==
  [st EXCEPT !.featureName = AfterKeyword(line), !.featureLineNumber = lineNumber]

\* extension.ts:210-241: the body of the loop for line lineNumber
ParseLine(lines, lineNumber, st) ==
  LET line == Trim(lines[lineNumber])
  IN  IF LineStartsWith(line, "Feature:") THEN SetFeature(line, lineNumber, st)
      ELSE IF LineStartsWith(line, "Scenario:")
      THEN [st EXCEPT !.scenarios =
              Append(@, MkScenarioInfo(AfterKeyword(line), lineNumber))]
      ELSE IF LineStartsWith(line, "Scenario Outline:")
      THEN [st EXCEPT !.scenarios =
              Append(@, MkScenarioInfo(AfterKeyword(line) \o <<" (Outline)">>, lineNumber))]
      ELSE IF LineStartsWith(line, "|") THEN AddExampleRow(lines, lineNumber, st)
      ELSE st

RECURSIVE ParseLines(_, _, _)
\* extension.ts:209-242
ParseLines(lines, lineNumber, st) ==
  IF lineNumber > Len(lines) THEN st
  ELSE ParseLines(lines, lineNumber + 1, ParseLine(lines, lineNumber, st))

\* Mutant: a feature is returned whatever the name.
ResultOfParse_NeverNull(st) ==
  [isNull |-> FALSE, name |-> st.featureName,
   lineNumber |-> st.featureLineNumber, scenarios |-> st.scenarios]

\* extension.ts:244-250
ResultOfParse(st) ==
  IF st.featureName = <<>> THEN NoFeature
  ELSE [isNull |-> FALSE, name |-> st.featureName,
        lineNumber |-> st.featureLineNumber, scenarios |-> st.scenarios]

\* extension.ts:200-251
parseFeatureFile(lines) == ResultOfParse(ParseLines(lines, 1, StartOfParse))

(***************************************************************************)
(* SpecParse: the parser is applied to a document of one to MaxLines       *)
(* lines, each of one of the shapes below.                                 *)
(***************************************************************************)
LineShapes ==
  {<<"x", " ", "Feature:">>,
   <<"Feature:", " ", "f1">>,
   <<" ", "Feature:", "f2", " ">>,
   <<"Feature:", " ">>,
   <<"Scenario:", " ", "s">>,
   <<" ", "Scenario Outline:", " ", "o">>,
   <<"Examples:">>,
   <<" ", "|", "x", "|">>}

Documents == SeqsUpTo(LineShapes, MaxLines) \ {<<>>}

InitParse ==
  /\ document \in Documents
  /\ featureInfo = NoFeature
  /\ returned = FALSE
  /\ codeLenses = NotProvided
  /\ resultFile = [kind |-> "absent", data |-> <<>>]
  /\ featureFilePath = TargetPath
  /\ scenarioResults = <<>>
  /\ featureFailed = FALSE
  /\ done = {}
  /\ NotWaiting
  /\ NotWatching
  /\ NotRunning
  /\ NotMarking

\* extension.ts:200-251
ParseFeatureFile ==
  /\ ~returned
  /\ featureInfo' = parseFeatureFile(document)
  /\ returned' = TRUE
  /\ UNCHANGED <<document, codeLenses>>
  /\ UNCHANGED <<resultFile, featureFilePath, scenarioResults, featureFailed, done>>
  /\ UNCHANGED waitVars
  /\ UNCHANGED markVars
  /\ UNCHANGED catVars
  /\ UNCHANGED runVars

NextParse == ParseFeatureFile

SpecParse == InitParse /\ [][NextParse]_vars

\* The lines of the document whose trimmed form starts with the keyword.
LinesStarting(keyword) ==
  {i \in 1..Len(document) : LineStartsWith(Trim(document[i]), keyword)}

FeatureLines == LinesStarting("Feature:")

ScenarioLines == LinesStarting("Scenario:") \cup LinesStarting("Scenario Outline:")

\* C18: for a text with no line whose trimmed form starts with 'Feature:'
\* the parser returns null.
C18_NoFeatureLineGivesNull ==
  (returned /\ FeatureLines = {}) => featureInfo.isNull

C18_Witness ==
  /\ returned
  /\ FeatureLines = {}
  /\ ScenarioLines # {}
  /\ \E i \in 1..Len(document) : document[i] = <<"x", " ", "Feature:">>
  /\ featureInfo.isNull

\* C19: for a text with exactly one 'Feature:' line and N 'Scenario:' or
\* 'Scenario Outline:' lines the parser returns a feature with exactly N
\* scenarios, in document order, each with the 1-indexed number of its
\* heading line.
C19_OneFeatureLineGivesScenarios ==
  (returned /\ Cardinality(FeatureLines) = 1) =>
    /\ ~featureInfo.isNull
    /\ Len(featureInfo.scenarios) = Cardinality(ScenarioLines)
    /\ \A k \in 1..Len(featureInfo.scenarios) :
         /\ featureInfo.scenarios[k].lineNumber \in ScenarioLines
         /\ Cardinality({i \in ScenarioLines : i < featureInfo.scenarios[k].lineNumber})
              = k - 1

\* C20: when the document has several 'Feature:' lines, the name and the
\* line number of the parsed feature are those of the first of them.
C20_FirstFeatureLineWins ==
  (returned /\ Cardinality(FeatureLines) >= 2 /\ ~featureInfo.isNull) =>
    LET first == CHOOSE i \in FeatureLines : \A j \in FeatureLines : i <= j
    IN  /\ featureInfo.lineNumber = first
        /\ featureInfo.name = AfterKeyword(Trim(document[first]))

(***************************************************************************)
(* provideCodeLenses of FeatureFileActionButtons, for a .feature document. *)
(* A lens is [lineNumber, command, scenarioLine, exampleLine]; lineNumber  *)
(* is the 1-based line the lens is put on, the last two are the line       *)
(* arguments of the command (0 when it has none).                          *)
(***************************************************************************)
MkLenses(lineNumber, what, scenarioLine, exampleLine) ==
  <<[lineNumber |-> lineNumber, command |-> <<"run", what, "CodeLens">>,
     scenarioLine |-> scenarioLine, exampleLine |-> exampleLine],
    [lineNumber |-> lineNumber, command |-> <<"debug", what, "CodeLens">>,
     scenarioLine |-> scenarioLine, exampleLine |-> exampleLine]>>

\* part_002:23-73: the lenses of line lineNumber
LensesOfLine(lines, lineNumber) ==
  LET line == Trim(lines[lineNumber])
  IN  IF LineStartsWith(line, "Feature:") THEN MkLenses(lineNumber, "Feature", 0, 0)
      ELSE IF LineStartsWith(line, "Scenario:") \/ LineStartsWith(line, "Scenario Outline:")
      THEN MkLenses(lineNumber, "Scenario", lineNumber, 0)
      ELSE IF LineStartsWith(line, "|") /\ lineNumber > 1
      THEN LET exampleInfo == findExampleRowInfo(lines, lineNumber)
           IN  IF exampleInfo.found
               THEN MkLenses(lineNumber, "Example", exampleInfo.scenarioLine, lineNumber)
               ELSE <<>>
      ELSE <<>>

RECURSIVE LensesFrom(_, _)
\* part_002:22-74
LensesFrom(lines, lineNumber) ==
  IF lineNumber > Len(lines) THEN <<>>
  ELSE LensesOfLine(lines, lineNumber) \o LensesFrom(lines, lineNumber + 1)

\* part_002:12-77
provideCodeLenses(lines) == [provided |-> TRUE, lenses |-> LensesFrom(lines, 1)]

\* part_002:12-77
ProvideCodeLenses ==
  /\ ~codeLenses.provided
  /\ codeLenses' = provideCodeLenses(document)
  /\ UNCHANGED <<document, featureInfo, returned>>
  /\ UNCHANGED <<resultFile, featureFilePath, scenarioResults, featureFailed, done>>
  /\ UNCHANGED waitVars
  /\ UNCHANGED markVars
  /\ UNCHANGED catVars
  /\ UNCHANGED runVars

(***************************************************************************)
(* SpecRows: documents that open with a Feature: line, followed by one to  *)
(* MaxTail lines, each a scenario heading, an outline heading, an          *)
(* Examples: heading, a table row or a line of other text.                 *)
(***************************************************************************)
MaxTail == 5

FeatureHeading == <<"Feature:", " ", "f1">>

TailShapes ==
  {<<"Scenario:", " ", "s">>,
   <<" ", "Scenario Outline:", " ", "o">>,
   <<" ", "Examples:">>,
   <<" ", "|", "x", "|">>,
   <<" ", "x">>}

RowDocuments ==
  {<<FeatureHeading>> \o t : t \in SeqsUpTo(TailShapes, MaxTail) \ {<<>>}}

InitRows ==
  /\ document \in RowDocuments
  /\ featureInfo = NoFeature
  /\ returned = FALSE
  /\ codeLenses = NotProvided
  /\ resultFile = [kind |-> "absent", data |-> <<>>]
  /\ featureFilePath = TargetPath
  /\ scenarioResults = <<>>
  /\ featureFailed = FALSE
  /\ done = {}
  /\ NotWaiting
  /\ NotWatching
  /\ NotRunning
  /\ NotMarking

NextRows == ParseFeatureFile \/ ProvideCodeLenses

SpecRows == InitRows /\ [][NextRows]_vars

ExamplesLines == LinesStarting("Examples:")

RowLinesOfDocument == LinesStarting("|")

OutlineLines == LinesStarting("Scenario Outline:")

Max(S) == CHOOSE i \in S : \A j \in S : j <= i

Min(S) == CHOOSE i \in S : \A j \in S : i <= j

\* The heading line of the scenario that is current at line i, 0 for none.
CurrentScenarioAt(i) ==
  IF \E j \in ScenarioLines : j < i THEN Max({j \in ScenarioLines : j < i}) ELSE 0

\* The line numbers in the example list of the scenario headed at line s.
ExampleLinesOf(s) ==
  LET k == CHOOSE k \in 1..Len(featureInfo.scenarios) :
             featureInfo.scenarios[k].lineNumber = s
      examples == featureInfo.scenarios[k].examples
  IN  [n \in 1..Len(examples) |-> examples[n].lineNumber]

\* All the lines accepted as example rows.
AcceptedRows ==
  UNION {Range(ExampleLinesOf(s)) : s \in ScenarioLines}

\* The header row of the Examples: heading at line e, 0 for none.
HeaderRow(e) ==
  IF \E r \in RowLinesOfDocument : r > e
  THEN Min({r \in RowLinesOfDocument : r > e})
  ELSE 0

\* The table of the heading at line e: the header row and the rows that
\* follow it without a gap.
TableOf(e) ==
  {r \in RowLinesOfDocument :
     HeaderRow(e) # 0 /\ r >= HeaderRow(e) /\ (HeaderRow(e)..r) \subseteq RowLinesOfDocument}

\* The Examples: headings of an outline that have their table under them:
\* the outline is the current scenario up to the header row.
OutlineHeadings ==
  {e \in ExamplesLines :
     /\ HeaderRow(e) # 0
     /\ CurrentScenarioAt(e) \in OutlineLines
     /\ CurrentScenarioAt(HeaderRow(e)) = CurrentScenarioAt(e)}

Increasing(f) == \A m, n \in 1..Len(f) : m < n => f[m] < f[n]

\* C21: under the Examples: heading of an outline the header row (the first
\* table row after the heading) is not added as an example row, and every
\* later row of that table is in the outline's example list under its
\* 1-indexed line number, the list being in document order.
C21_HeaderExcludedRowsIncluded ==
  returned =>
    \A e \in OutlineHeadings :
      /\ HeaderRow(e) \notin AcceptedRows
      /\ \A r \in TableOf(e) :
           r > HeaderRow(e) => r \in Range(ExampleLinesOf(CurrentScenarioAt(e)))
      /\ Increasing(ExampleLinesOf(CurrentScenarioAt(e)))

C21_Witness ==
  /\ returned
  /\ Len(document) = 6
  /\ OutlineHeadings = {3}
  /\ TableOf(3) = {4, 5, 6}
  /\ ExampleLinesOf(2) = <<5, 6>>

\* C22: after parsing, a scenario opened by 'Scenario:' has an empty example
\* list: every example row belongs to an outline.
C22_PlainScenarioHasNoRows ==
  returned =>
    \A s \in LinesStarting("Scenario:") : ExampleLinesOf(s) = <<>>

\* C23: a table row is accepted only inside the Examples block of the
\* current scenario: there is an Examples: heading between the heading of
\* the scenario it is added to and the row, and the row belongs to the table
\* of the nearest heading above it (no other line between the header row and
\* the row).
C23_RowsOnlyInsideExamplesBlock ==
  returned =>
    \A s \in ScenarioLines :
      \A r \in Range(ExampleLinesOf(s)) :
        /\ \E e \in ExamplesLines : s < e /\ e < r
        /\ r \in TableOf(Max({e \in ExamplesLines : e < r}))

(***************************************************************************)
(* SpecSpace: documents that differ only in the whitespace at the start    *)
(* and at the end of their lines.  Each is one of the skeletons below with *)
(* whitespace added in front of, behind or around each line after the      *)
(* first.                                                                  *)
(***************************************************************************)
Skeletons ==
  {<<<<"Feature:", " ", "f1">>, <<"Scenario Outline:", " ", "o">>, <<"Examples:">>,
     <<"|", "x", "|">>, <<"|", "x", "|">>, <<"|", "x", "|">>>>,
   <<<<"Feature:", " ", "f1">>, <<"Scenario Outline:", " ", "o">>, <<"Examples:">>,
     <<"Scenario:", " ", "s">>, <<"|", "x", "|">>, <<"|", "x", "|">>>>,
   <<<<"Feature:", " ", "f1">>, <<"Scenario Outline:", " ", "o">>, <<"Examples:">>,
     <<>>, <<"|", "x", "|">>, <<"|", "x", "|">>>>,
   <<<<"Feature:", " ", "f1">>, <<"|", "x", "|">>, <<"Examples:">>,
     <<"|", "x", "|">>, <<"x">>, <<"|", "x", "|">>>>}

Paddings == {"none", "leading", "trailing", "both"}

Pad(line, padding) ==
  (IF padding \in {"leading", "both"} THEN <<" ">> ELSE <<>>)
  \o line
  \o (IF padding \in {"trailing", "both"} THEN <<" ">> ELSE <<>>)

PadLines(lines, paddings) ==
  [i \in 1..Len(lines) |-> IF i = 1 THEN lines[i] ELSE Pad(lines[i], paddings[i - 1])]

SpacedDocuments ==
  {PadLines(k, w) : k \in Skeletons, w \in [1..5 -> Paddings]}

InitSpace ==
  /\ document \in SpacedDocuments
  /\ featureInfo = NoFeature
  /\ returned = FALSE
  /\ codeLenses = NotProvided
  /\ resultFile = [kind |-> "absent", data |-> <<>>]
  /\ featureFilePath = TargetPath
  /\ scenarioResults = <<>>
  /\ featureFailed = FALSE
  /\ done = {}
  /\ NotWaiting
  /\ NotWatching
  /\ NotRunning
  /\ NotMarking

SpecSpace == InitSpace /\ [][NextRows]_vars

\* The document without the whitespace around its lines.
Stripped == [i \in 1..Len(document) |-> Trim(document[i])]

\* The lines for which a lens of an example row was given, with the outline
\* line returned for each.
ClassifiedRows(lenses) ==
  {<<lenses[n].exampleLine, lenses[n].scenarioLine>> :
     n \in {m \in 1..Len(lenses) : lenses[m].exampleLine # 0}}

\* C24: whitespace at the start and the end of the lines changes neither the
\* lines accepted as example data rows nor the outline line returned for
\* them: the document gives what the document stripped of that whitespace
\* gives.
C24_WhitespaceInvariant ==
  /\ returned => featureInfo = parseFeatureFile(Stripped)
  /\ codeLenses.provided =>
       ClassifiedRows(codeLenses.lenses) = ClassifiedRows(provideCodeLenses(Stripped).lenses)

C24_Witness ==
  /\ returned
  /\ codeLenses.provided
  /\ \A i \in 2..Len(document) : document[i] # Stripped[i]
  /\ ClassifiedRows(codeLenses.lenses) = {<<5, 2>>, <<6, 2>>}
  /\ AcceptedRows = {5, 6}

(***************************************************************************)
(* Cancellation of a batch reconciliation (cucumberTestExplorer.ts:412-448) *)
(***************************************************************************)

IsJsonArrayFile == resultFile.kind = "array"

\* The wait goes on under weak fairness of its own steps: each delay of
\* waitForValidJsonFile is a timer of delayMs that fires.
WaitStep == AttemptSucceeds \/ AttemptRetries \/ WaitGivesUp

SpecWaitFair == SpecWait /\ WF_vars(WaitStep)

\* C30: every step of the wait is an attempt numbered at most maxAttempts;
\* the wait returns true at the first attempt that finds a JSON array, goes
\* to the next attempt only after a failed one and only below the bound,
\* returns false only when the attempt numbered maxAttempts fails, and
\* always returns.
C30_WaitIsBounded ==
  /\ [][pc = "attempt" =>
          /\ attempt \in 1..maxAttempts
          /\ (pc' = "attempt" /\ attempt' # attempt) =>
               /\ ~IsJsonArrayFile
               /\ attempt' = attempt + 1
               /\ attempt' <= maxAttempts
          /\ pc' # "attempt" =>
               /\ attempt' = attempt
               /\ isValid' = IsJsonArrayFile
               /\ ~IsJsonArrayFile => attempt = maxAttempts]_vars
  /\ (pc = "attempt") ~> (pc # "attempt")

\* The file became a JSON array only for the last attempt, which returned true.
C30_Witness ==
  /\ pc = "read"
  /\ isValid
  /\ attempt = maxAttempts
  /\ IsJsonArrayFile

(***************************************************************************)
(* SpecCatalog: the catalog of CucumberTestExplorer while feature files    *)
(* are created, saved and deleted.  A create, change or save event sets a  *)
(* timer for the file; the callback of a timer that fires opens the        *)
(* document, and when the document is there, parses it and rebuilds the    *)
(* feature's tree.  Events may arrive between any two of these steps.      *)
(***************************************************************************)
MaxTimers == 2

\* The texts a feature file can hold: one without a feature, and two
\* features that share the scenario of line 3 and nothing else.
Texts == {"none", "v1", "v2"}

\* models.ts:8-11 and :21-26
ScenarioDefinition(name, lineNumber, exampleLines) ==
  [name |-> name, lineNumber |-> lineNumber,
   examples |-> [i \in 1..Len(exampleLines) |->
                   [lineNumber |-> exampleLines[i], data |-> "x"]]]

\* models.ts:34-38
RuleBlock(name, lineNumber, scenarios) ==
  [name |-> name, lineNumber |-> lineNumber, scenarios |-> scenarios]

\* models.ts:46-52
ParsedFeature(name, lineNumber, scenarios, rules) ==
  [isNull |-> FALSE, name |-> name, lineNumber |-> lineNumber,
   scenarios |-> scenarios, rules |-> rules]

\* parseGherkinDocument returns null
NoParsedFeature ==
  [isNull |-> TRUE, name |-> "", lineNumber |-> 0, scenarios |-> <<>>, rules |-> <<>>]

\* gherkinParser: what the parser returns for each of the texts
parseGherkinDocument(text) ==
  CASE text = "v1" ->
         ParsedFeature("f1", 1,
           <<ScenarioDefinition("s", 3, <<>>),
             ScenarioDefinition("o", 9, <<13, 14>>)>>,
           <<RuleBlock("r", 20, <<ScenarioDefinition("n", 22, <<>>)>>)>>)
    [] text = "v2" ->
         ParsedFeature("f2", 1,
           <<ScenarioDefinition("s", 3, <<>>),
             ScenarioDefinition("t", 6, <<>>)>>,
           <<>>)
    [] OTHER -> NoParsedFeature

\* cucumberTestExplorer.ts:212-227
createExampleItem(scenarioId, example) ==
  [id |-> scenarioId \o <<"example", example.lineNumber>>,
   label |-> example.data,
   line |-> example.lineNumber,
   children |-> <<>>]

\* cucumberTestExplorer.ts:196-229
createScenarioItem(fid, scenario) ==
  LET scenarioId == <<fid, "scenario", scenario.lineNumber>>
  IN  [id |-> scenarioId,
       label |-> scenario.name,
       line |-> scenario.lineNumber,
       children |-> [i \in 1..Len(scenario.examples) |->
                       createExampleItem(scenarioId, scenario.examples[i])]]

\* cucumberTestExplorer.ts:238-257
createRuleItem(fid, rule) ==
  [id |-> <<fid, "rule", rule.lineNumber>>,
   label |-> rule.name,
   line |-> rule.lineNumber,
   children |-> [i \in 1..Len(rule.scenarios) |->
                   createScenarioItem(fid, rule.scenarios[i])]]

\* cucumberTestExplorer.ts:185-258
createFeatureItem(fid, info) ==
  [id |-> <<fid>>,
   label |-> info.name,
   line |-> info.lineNumber,
   children |-> [i \in 1..Len(info.scenarios) |-> createScenarioItem(fid, info.scenarios[i])]
                \o [i \in 1..Len(info.rules) |-> createRuleItem(fid, info.rules[i])]]

\* controller.items and the keys of watchedFiles
Catalog == [items |-> items, watchedFiles |-> watchedFiles]

\* Mutant: the item is removed, the entry of watchedFiles stays.
RemoveFeature_KeepsWatched(cat, fid) ==
  [items |-> [cat.items EXCEPT ![fid] = NoItem], watchedFiles |-> cat.watchedFiles]

\* cucumberTestExplorer.ts:175-180 and :289-293
RemoveFeature(cat, fid) ==
  IF fid \in cat.watchedFiles
  THEN [items |-> [cat.items EXCEPT ![fid] = NoItem],
        watchedFiles |-> cat.watchedFiles \ {fid}]
  ELSE cat

\* Mutant: the new feature item replaces the whole collection.
createOrUpdateTest_ReplacesAll(cat, fid, text) ==
  IF text = "missing" \/ parseGherkinDocument(text).isNull
  THEN cat
  ELSE [items |-> [f \in Files |->
                     IF f = fid
                     THEN createFeatureItem(fid, parseGherkinDocument(text))
                     ELSE NoItem],
        watchedFiles |-> {fid}]

\* Mutant: the children of the new parse are added to those already there.
createOrUpdateTest_Appending(cat, fid, text) ==
  IF text = "missing" \/ parseGherkinDocument(text).isNull
  THEN cat
  ELSE LET new == createFeatureItem(fid, parseGherkinDocument(text))
       IN  [items |-> [cat.items EXCEPT ![fid] =
                         [new EXCEPT !.children = cat.items[fid].children \o @]],
            watchedFiles |-> cat.watchedFiles \cup {fid}]

\* cucumberTestExplorer.ts:160-283, from the document that was opened; the
\* text is "missing" when openTextDocument threw
createOrUpdateTest(cat, fid, text) ==
  IF text = "missing"
  THEN cat
  ELSE LET info == parseGherkinDocument(text)
           removed == RemoveFeature(cat, fid)
       IN  IF info.isNull
           THEN cat
           ELSE [items |-> [removed.items EXCEPT ![fid] = createFeatureItem(fid, info)],
                 watchedFiles |-> removed.watchedFiles \cup {fid}]

\* cucumberTestExplorer.ts:285-294
deleteTest(cat, fid) == RemoveFeature(cat, fid)

\* cucumberTestExplorer.ts:110-117: a timer set for the file
Timer(f, n) == [file |-> f, timer |-> n]

\* cucumberTestExplorer.ts:110-115: the callback of a timer that fired
Callback(tm, phase, text) ==
  [file |-> tm.file, timer |-> tm.timer, phase |-> phase, text |-> text]

\* cucumberTestExplorer.ts:18-20: the explorer after its construction, in a
\* workspace that has no feature file yet
InitCatalog ==
  /\ resultFile = [kind |-> "absent", data |-> <<>>]
  /\ featureFilePath = TargetPath
  /\ scenarioResults = <<>>
  /\ featureFailed = FALSE
  /\ done = {}
  /\ NotWaiting
  /\ NotMarking
  /\ NotParsing
  /\ NotWatching
  /\ NotRunning

\* cucumberTestExplorer.ts:35-45 and :100-118: the file is created or
\* saved with the text t, and handleFileEvent('create' or 'change') runs
FileChanged(f, t) ==
  /\ nextTimer <= MaxTimers
  /\ fileText' = [fileText EXCEPT ![f] = t]
  /\ pendingTimers' =
       (pendingTimers \ {Timer(f, updateTimers[f])}) \cup {Timer(f, nextTimer)}
  /\ updateTimers' = [updateTimers EXCEPT ![f] = nextTimer]
  /\ nextTimer' = nextTimer + 1
  /\ UNCHANGED <<items, watchedFiles, inflight>>
  /\ UNCHANGED <<resultFile, featureFilePath, scenarioResults, featureFailed, done>>
  /\ UNCHANGED waitVars
  /\ UNCHANGED markVars
  /\ UNCHANGED docVars
  /\ UNCHANGED runVars

\* cucumberTestExplorer.ts:37 and :96-99: the file is deleted, and
\* handleFileEvent('delete') runs
FileDeleted(f) ==
  /\ fileText[f] # "missing"
  /\ fileText' = [fileText EXCEPT ![f] = "missing"]
  /\ items' = deleteTest(Catalog, f).items
  /\ watchedFiles' = deleteTest(Catalog, f).watchedFiles
  /\ UNCHANGED <<updateTimers, pendingTimers, inflight, nextTimer>>
  /\ UNCHANGED <<resultFile, featureFilePath, scenarioResults, featureFailed, done>>
  /\ UNCHANGED waitVars
  /\ UNCHANGED markVars
  /\ UNCHANGED docVars
  /\ UNCHANGED runVars

\* cucumberTestExplorer.ts:110-112 and :163: the timer fires, its callback
\* calls createOrUpdateTest, which asks for the document
TimerFires(tm) ==
  /\ tm \in pendingTimers
  /\ pendingTimers' = pendingTimers \ {tm}
  /\ inflight' = inflight \cup {Callback(tm, "opening", "missing")}
  /\ UNCHANGED <<fileText, items, watchedFiles, updateTimers, nextTimer>>
  /\ UNCHANGED <<resultFile, featureFilePath, scenarioResults, featureFailed, done>>
  /\ UNCHANGED waitVars
  /\ UNCHANGED markVars
  /\ UNCHANGED docVars
  /\ UNCHANGED runVars

\* cucumberTestExplorer.ts:163: openTextDocument reads the file, or fails
OpenTextDocument(c) ==
  /\ c \in inflight
  /\ c.phase = "opening"
  /\ inflight' = (inflight \ {c}) \cup {Callback(c, "opened", fileText[c.file])}
  /\ UNCHANGED <<fileText, items, watchedFiles, updateTimers, pendingTimers, nextTimer>>
  /\ UNCHANGED <<resultFile, featureFilePath, scenarioResults, featureFailed, done>>
  /\ UNCHANGED waitVars
  /\ UNCHANGED markVars
  /\ UNCHANGED docVars
  /\ UNCHANGED runVars

\* cucumberTestExplorer.ts:164-283 and :113-114: the rest of createOrUpdateTest,
\* then the rest of the callback
CompleteReparse(c) ==
  /\ c \in inflight
  /\ c.phase = "opened"
  /\ items' = createOrUpdateTest(Catalog, c.file, c.text).items
  /\ watchedFiles' = createOrUpdateTest(Catalog, c.file, c.text).watchedFiles
  /\ updateTimers' = [updateTimers EXCEPT ![c.file] = 0]
  /\ inflight' = inflight \ {c}
  /\ UNCHANGED <<fileText, pendingTimers, nextTimer>>
  /\ UNCHANGED <<resultFile, featureFilePath, scenarioResults, featureFailed, done>>
  /\ UNCHANGED waitVars
  /\ UNCHANGED markVars
  /\ UNCHANGED docVars
  /\ UNCHANGED runVars

NextCatalog ==
  \/ \E f \in Files, t \in Texts : FileChanged(f, t)
  \/ \E f \in Files : FileDeleted(f)
  \/ \E tm \in pendingTimers : TimerFires(tm)
  \/ \E c \in inflight : OpenTextDocument(c)
  \/ \E c \in inflight : CompleteReparse(c)

SpecCatalog == InitCatalog /\ [][NextCatalog]_vars

\* The step is the completion of createOrUpdateTest for the file f.
Completes(f) ==
  \E c \in inflight : c.file = f /\ c.phase = "opened" /\ inflight' = inflight \ {c}

\* The step is the delete event of the file f, handled by deleteTest.
Deletes(f) == fileText[f] # "missing" /\ fileText'[f] = "missing"

\* C25: a step that completes createOrUpdateTest(f) or runs deleteTest(f)
\* leaves the catalog entry of every other file g as it was.
C25_OtherFilesUntouched ==
  [][\A f \in Files :
       (Completes(f) \/ Deletes(f)) =>
         \A g \in Files \ {f} :
           /\ items'[g] = items[g]
           /\ (g \in watchedFiles') = (g \in watchedFiles)]_vars

\* Both files are in the catalog: the second createOrUpdateTest ran while
\* the first file's tree was there, and left it there.
C25_Witness ==
  /\ items["a.f"] = createFeatureItem("a.f", parseGherkinDocument("v1"))
  /\ items["b.f"] = createFeatureItem("b.f", parseGherkinDocument("v2"))
  /\ watchedFiles = Files
  /\ inflight = {}

\* The step completes the re-parse c, which had read a text of its file.
CompletesWithText(c) ==
  c \in inflight /\ c.phase = "opened" /\ c.text # "missing" /\ inflight' = inflight \ {c}

\* C26: when a re-parse completes, the catalog holds for its file exactly
\* the tree built from the text it read, and nothing for the file when that
\* text has no feature.
C26_CatalogHoldsNewParse ==
  [][\A c \in inflight :
       CompletesWithText(c) =>
         LET info == parseGherkinDocument(c.text)
         IN  IF info.isNull
             THEN items'[c.file] = NoItem /\ c.file \notin watchedFiles'
             ELSE items'[c.file] = createFeatureItem(c.file, info)
                  /\ c.file \in watchedFiles']_vars

RECURSIVE ItemIds(_)
\* The ids of an item and of all the items below it.
ItemIds(item) ==
  IF item = NoItem
  THEN {}
  ELSE {item.id} \cup UNION {ItemIds(item.children[i]) : i \in 1..Len(item.children)}

RECURSIVE ItemCount(_)
\* The number of items of a tree; it equals the number of its ids when no
\* id occurs twice.
ItemCount(item) ==
  IF item = NoItem
  THEN 0
  ELSE LET below[i \in 0..Len(item.children)] ==
             IF i = 0 THEN 0 ELSE below[i - 1] + ItemCount(item.children[i])
       IN  1 + below[Len(item.children)]

\* The id is the file path alone, or the path followed by ':scenario:<line>',
\* ':scenario:<line>:example:<line>' or ':rule:<line>'.
IsNodeIdOf(f, id) ==
  /\ Len(id) \in {1, 3, 5}
  /\ id[1] = f
  /\ Len(id) = 3 => (id[2] \in {"scenario", "rule"} /\ id[3] \in Nat)
  /\ Len(id) = 5 => (id[2] = "scenario" /\ id[3] \in Nat
                     /\ id[4] = "example" /\ id[5] \in Nat)

\* The step completes a re-parse of a text whose tree the catalog already
\* holds: createOrUpdateTest is applied to that text a second time.
CompletesAgain(c) ==
  /\ CompletesWithText(c)
  /\ ~parseGherkinDocument(c.text).isNull
  /\ c.file \in watchedFiles
  /\ items[c.file] = createFeatureItem(c.file, parseGherkinDocument(c.text))

\* C27: from every catalog the explorer reaches, applying createOrUpdateTest
\* to a file and a text twice gives the catalog that applying it once gives,
\* tree for tree; every id in a tree has one of the four forms, built from
\* the file path and line numbers only, and occurs once; and a step that
\* re-parses the text the catalog was built from leaves the catalog as it is.
C27_ReparseIsIdempotent ==
  /\ [](\A f \in Files, t \in Texts :
          LET once == createOrUpdateTest(Catalog, f, t)
              twice == createOrUpdateTest(once, f, t)
          IN  /\ twice = once
              /\ \A id \in ItemIds(once.items[f]) : IsNodeIdOf(f, id)
              /\ Cardinality(ItemIds(once.items[f])) = ItemCount(once.items[f]))
  /\ [][\A c \in inflight :
          CompletesAgain(c) => (items' = items /\ watchedFiles' = watchedFiles)]_vars

\* The catalog holds the tree of the text of a.f, the file was saved again
\* with the same text, and the second re-parse has read it.
C27_Witness ==
  /\ fileText["a.f"] = "v1"
  /\ items["a.f"] = createFeatureItem("a.f", parseGherkinDocument("v1"))
  /\ \E c \in inflight : c.file = "a.f" /\ c.phase = "opened" /\ c.text = "v1"

\* The timers of the file f that are set and have not fired.
PendingFor(f) == {tm \in pendingTimers : tm.file = f}

\* C29: a file has at most one pending timer, and every pending timer is
\* the one that updateTimers records for its file.
C29_OnePendingTimerRecorded ==
  /\ \A f \in Files : Cardinality(PendingFor(f)) <= 1
  /\ \A tm \in pendingTimers : updateTimers[tm.file] = tm.timer

(***************************************************************************)
(* The three tiers of isSameFeaturePath (part_000:323-348)                  *)
(***************************************************************************)

\* The first two tiers: the normalized paths are equal, or the first ends
\* with '/' followed by the second.
EqualOrEndsWith(a, b) ==
  \/ normalizePath(a) = normalizePath(b)
  \/ EndsWith(normalizePath(a), <<"/">> \o normalizePath(b))

\* C40: isSameFeaturePath(a, b) is true exactly when the normalized paths
\* are equal or normalize(a) ends with '/' + normalize(b), in both orders of
\* the arguments; the entry of the report is taken exactly in that case.
C40_ThirdTierAddsNothing ==
  Parsed =>
    /\ isSameFeaturePath(featureFilePath, ReportIdentity)
         <=> EqualOrEndsWith(featureFilePath, ReportIdentity)
    /\ isSameFeaturePath(ReportIdentity, featureFilePath)
         <=> EqualOrEndsWith(ReportIdentity, featureFilePath)
    /\ EntryMatched <=> EqualOrEndsWith(featureFilePath, ReportIdentity)

\* The first two tiers reject, the base names are equal and the target has
\* more segments than the report identity: the third tier compares the
\* trailing segments, and rejects too.
C40_Witness ==
  /\ Parsed
  /\ ~EqualOrEndsWith(featureFilePath, ReportIdentity)
  /\ BaseName(featureFilePath) = BaseName(ReportIdentity)
  /\ Len(Segments(featureFilePath)) > Len(Segments(ReportIdentity))
  /\ ~EntryMatched

(***************************************************************************)
(* SpecMessage: executeBatchTests on reports with one element for the file, *)
(* at the line of a plain scenario, of an example row or of a scenario in   *)
(* the rule.  The element fails in its first step, whose keyword, name and  *)
(* line vary, or in a hook, or has only skipped steps, or has no steps.     *)
(***************************************************************************)
MessageKeywords == {"Given", "When", "Then"}

MessageStepNames ==
  {"step one", "the log shows Hook Failed", "a Scenario Setup Error is shown",
   "an Empty Scenario is saved"}

MessageLines == {PlainLines[1], RowLines[1], NestedLines[1]}

\* An element whose first step did not pass; stepLine = 0 for a step
\* without a line
StepFailureElement(line, status, keyword, name, stepLine) ==
  [MkScenario(line, <<>>, TRUE, <<status>>, <<>>) EXCEPT
     !.steps.items[1].keyword = keyword,
     !.steps.items[1].name = name,
     !.steps.items[1].line = stepLine]

MessageElements(line) ==
  {StepFailureElement(line, st, k, n, l) :
     st \in {"failed", "none"}, k \in MessageKeywords, n \in MessageStepNames,
     l \in {0, line + 1}}
  \cup {MkScenario(line, <<"failed">>, TRUE, <<"passed">>, <<>>),
        MkScenario(line, <<>>, TRUE, <<"passed">>, <<"failed">>),
        MkScenario(line, <<>>, TRUE, <<"skipped">>, <<>>),
        MkScenario(line, <<>>, TRUE, <<>>, <<>>)}

MessageFiles ==
  {[kind |-> "array", data |-> <<MkEntry(ReportUri, <<e>>)>>] :
     e \in UNION {MessageElements(line) : line \in MessageLines}}

MessageRequests ==
  {<<FeatureItem>>, <<ScenarioItem(PlainLines[1])>>, <<ScenarioItem(OutlineLine)>>}

InitMessage ==
  /\ resultFile \in MessageFiles
  /\ featureFilePath = TargetPath
  /\ scenarioResults = <<>>
  /\ featureFailed = FALSE
  /\ done = {}
  /\ NotWaiting
  /\ NotWatching
  /\ NotParsing
  /\ testItems \in MessageRequests
  /\ cursor = 1
  /\ marks = [n \in Nodes |-> IF n \in Range(testItems) THEN Started ELSE Unmarked]
  /\ cancelled = FALSE
  /\ requested = testItems
  /\ run = MkRun("processing", TRUE, "running", 0, "resultFile")
  /\ sessions = <<>>

SpecMessage == InitMessage /\ [][NextMark]_vars

\* The element of the report.
TheElement == resultFile.data[1].elements.items[1]

\* The element failed in a step: no before hook failed, and its first step
\* has a status other than passed and skipped.
FailedInStep(e) ==
  /\ \A i \in 1..Len(e.before) : e.before[i].status \in {"passed", "none"}
  /\ Len(e.steps.items) > 0
  /\ e.steps.items[1].status \notin {"passed", "skipped"}

\* The zero-based line the claim gives the failure of the element.
ClaimedLine(e) ==
  IF FailedInStep(e) /\ e.steps.items[1].line # 0
  THEN e.steps.items[1].line - 1
  ELSE e.line - 1

\* C31: every failure message with a location is located at the failing
\* step's own line, at the scenario's line when the step has no line, and at
\* the scenario's line for hook, setup and empty-scenario failures, whatever
\* the keyword and the name of the step.
C31_StepFailureAtStepLine ==
  InRun =>
    \A n \in Nodes :
      \A i \in 1..Len(marks[n].messages) :
        marks[n].messages[i].line >= 0 =>
          marks[n].messages[i].line = ClaimedLine(TheElement)

(***************************************************************************)
(* executeTests (cucumberTestExplorer.ts:296-320).  SpecFilter: the run     *)
(* request holds up to MaxRequest items of the catalog, in any order, and   *)
(* executeTests runs up to its first await.                                 *)
(***************************************************************************)
MaxRequest == 3

\* item.parent is undefined
NoParent == <<>>

\* item.parent
Parent(item) ==
  IF \E n \in Nodes : item \in Range(Children(n))
  THEN CHOOSE n \in Nodes : item \in Range(Children(n))
  ELSE NoParent

RECURSIVE ParentIsRunning(_, _)
\* cucumberTestExplorer.ts:475-486: the walk up the parents of an item
ParentIsRunning(parent, runSet) ==
  IF parent = NoParent THEN FALSE
  ELSE IF parent \in runSet THEN TRUE
  ELSE ParentIsRunning(Parent(parent), runSet)

\* Mutant: only the parent is looked at, not the parent's parents.
filterTestItems_ParentOnly(requestItems) ==
  SelectSeq(requestItems, LAMBDA item : Parent(item) \notin Range(requestItems))

\* cucumberTestExplorer.ts:469-493
filterTestItems(requestItems) ==
  SelectSeq(requestItems,
            LAMBDA item : ~ParentIsRunning(Parent(item), Range(requestItems)))

InitFilter ==
  /\ resultFile = [kind |-> "absent", data |-> <<>>]
  /\ featureFilePath = TargetPath
  /\ scenarioResults = <<>>
  /\ featureFailed = FALSE
  /\ done = {}
  /\ NotWaiting
  /\ NotWatching
  /\ NotParsing
  /\ requested \in SeqsUpTo(Nodes, MaxRequest)
  /\ run = MkRun("idle", TRUE, "idle", 0, "none")
  /\ sessions = <<>>
  /\ testItems = <<>>
  /\ cursor = 0
  /\ marks = [n \in Nodes |-> Unmarked]
  /\ cancelled = FALSE

\* cucumberTestExplorer.ts:296-309 and :339-408: executeTests up to the call
\* of runCucumberTestBatch; with nothing to run executeBatchTests returns true
ExecuteTests ==
  /\ run.phase = "idle"
  /\ testItems' = filterTestItems(requested)
  /\ marks' = [n \in Nodes |-> IF n \in Range(testItems') THEN Started ELSE marks[n]]
  /\ run' = [run EXCEPT !.phase = IF Len(testItems') = 0 THEN "returned" ELSE "awaiting",
                        !.statusBar = "running"]
  /\ UNCHANGED <<requested, sessions, cursor, cancelled>>
  /\ UNCHANGED <<resultFile, featureFilePath, scenarioResults, featureFailed, done>>
  /\ UNCHANGED waitVars
  /\ UNCHANGED docVars
  /\ UNCHANGED catVars

NextFilter == ExecuteTests

SpecFilter == InitFilter /\ [][NextFilter]_vars

\* The nodes above an item in the catalog.
Ancestors(item) == {n \in Nodes : item \in Descendants(n)}

\* The filter has run.
Filtered == run.phase # "idle"

\* C38: the items to run are the requested items without a requested
\* ancestor, in the order of the request; no two of them are ancestor and
\* descendant; every requested item is among them or has an ancestor there.
C38_FilterKeepsTopmostRequested ==
  Filtered =>
    /\ testItems =
         SelectSeq(requested, LAMBDA x : Ancestors(x) \cap Range(requested) = {})
    /\ \A x \in Range(testItems), y \in Range(testItems) : x \notin Descendants(y)
    /\ \A x \in Range(requested) :
         x \in Range(testItems) \/ Ancestors(x) \cap Range(testItems) # {}

\* An example row, the feature and a plain scenario were requested, in that
\* order: the feature alone is run.
C38_Witness ==
  /\ Filtered
  /\ requested = <<ExampleItem(OutlineLine, RowLines[1]), FeatureItem,
                   ScenarioItem(PlainLines[1])>>
  /\ testItems = <<FeatureItem>>

(***************************************************************************)
(* SpecRun: one test run from the request to run.end(): executeTests,       *)
(* the runner's answer, the loop over the items, the catch clause and the   *)
(* status bar.                                                              *)
(***************************************************************************)
RunRequests ==
  {<<>>,
   <<FeatureItem>>,
   <<ScenarioItem(PlainLines[1]), ScenarioItem(PlainLines[2])>>,
   <<FeatureItem, ScenarioItem(OutlineLine)>>}

InitRun ==
  /\ resultFile = [kind |-> "absent", data |-> <<>>]
  /\ featureFilePath = TargetPath
  /\ scenarioResults = <<>>
  /\ featureFailed = FALSE
  /\ done = {}
  /\ NotWaiting
  /\ NotWatching
  /\ NotParsing
  /\ requested \in RunRequests
  /\ run = MkRun("idle", TRUE, "idle", 0, "none")
  /\ sessions = <<>>
  /\ testItems = <<>>
  /\ cursor = 0
  /\ marks = [n \in Nodes |-> Unmarked]
  /\ cancelled = FALSE

\* Mutant: only the first item of the batch is marked failed.
MarkAllFailed_FirstOnly(ms, batch, label) ==
  [n \in Nodes |->
     IF Len(batch) > 0 /\ n = batch[1]
     THEN MarkFailed(<<MkMessage(<<>>, 0, <<label>>, <<>>, -1)>>)
     ELSE ms[n]]

\* cucumberTestExplorer.ts:453-455 and :461-463: run.failed for every item
MarkAllFailed(ms, batch, label) ==
  [n \in Nodes |->
     IF n \in Range(batch)
     THEN MarkFailed(<<MkMessage(<<>>, 0, <<label>>, <<>>, -1)>>)
     ELSE ms[n]]

\* part_003:190-201 and cucumberTestExplorer.ts:410-413: the session has
\* terminated, the runner resolves with the path of the report, the loop starts
RunnerYieldsResultFile(file) ==
  /\ run.phase = "awaiting"
  /\ resultFile' = file
  /\ cursor' = 1
  /\ run' = [run EXCEPT !.phase = "processing", !.outcome = "resultFile"]
  /\ UNCHANGED <<requested, sessions, testItems, marks, cancelled>>
  /\ UNCHANGED <<featureFilePath, scenarioResults, featureFailed, done>>
  /\ UNCHANGED waitVars
  /\ UNCHANGED docVars
  /\ UNCHANGED catVars

\* part_003:39-48, :182-187, :203-207 and cucumberTestExplorer.ts:449-456:
\* the glue path prompt was cancelled, the session did not start or the ten
\* minutes passed; the runner resolves without a result file
RunnerYieldsNoResultFile ==
  /\ run.phase = "awaiting"
  /\ marks' = MarkAllFailed(marks, testItems, "testResultsCheckTerminal")
  /\ run' = [run EXCEPT !.phase = "returned", !.allPassed = FALSE,
                        !.outcome = "noResultFile"]
  /\ UNCHANGED <<requested, sessions, testItems, cursor, cancelled>>
  /\ UNCHANGED <<resultFile, featureFilePath, scenarioResults, featureFailed, done>>
  /\ UNCHANGED waitVars
  /\ UNCHANGED docVars
  /\ UNCHANGED catVars

\* cucumberTestExplorer.ts:457-464: an error is thrown inside the try block
BatchThrows ==
  /\ run.phase \in {"awaiting", "processing"}
  /\ marks' = MarkAllFailed(marks, testItems, "Test execution failed")
  /\ cursor' = 0
  /\ run' = [run EXCEPT !.phase = "returned", !.allPassed = FALSE, !.outcome = "threw"]
  /\ UNCHANGED <<requested, sessions, testItems, cancelled>>
  /\ UNCHANGED <<resultFile, featureFilePath, scenarioResults, featureFailed, done>>
  /\ UNCHANGED waitVars
  /\ UNCHANGED docVars
  /\ UNCHANGED catVars

\* Mutant: run.end() sits in the success branch.
RunEndCalls_OnSuccessOnly(success) == IF success THEN 1 ELSE 0

\* cucumberTestExplorer.ts:312-319: run.end() follows both branches
RunEndCalls(success) == 1

\* cucumberTestExplorer.ts:309-319: executeBatchTests has returned
EndRun ==
  /\ run.phase = "returned"
  /\ run' = [run EXCEPT !.phase = "ended",
                        !.statusBar = IF run.allPassed THEN "passed" ELSE "failed",
                        !.ended = @ + RunEndCalls(run.allPassed)]
  /\ UNCHANGED <<requested, sessions>>
  /\ UNCHANGED markVars
  /\ UNCHANGED <<resultFile, featureFilePath, scenarioResults, featureFailed, done>>
  /\ UNCHANGED waitVars
  /\ UNCHANGED docVars
  /\ UNCHANGED catVars

\* The reports a terminated session leaves: of the requested file, passed or
\* failed, of another file, and files that are no report.
RunFiles ==
  {[kind |-> "array", data |-> r] : r \in OtherReports} \cup InvalidFiles

\* The steps the extension and the runner take by themselves, the loop's
\* iterations apart.
RunProgress ==
  \/ ExecuteTests
  \/ \E file \in RunFiles : RunnerYieldsResultFile(file)
  \/ RunnerYieldsNoResultFile
  \/ Cancel
  \/ CleanupResultFile
  \/ EndRun

NextRun ==
  \/ RunProgress
  \/ ProcessItem
  \/ RequestCancellation
  \/ BatchThrows

SpecRun == InitRun /\ [][NextRun]_vars

\* cucumberTestExplorer.ts:414-417: the loop moves to its next item; of the
\* steps of NextRun only ProcessItem does
LoopAdvances ==
  /\ cursor >= 1
  /\ cursor <= Len(testItems)
  /\ ~isCancellationRequested(cancelled)
  /\ cursor' = cursor + 1

\* The runner's promise is resolved by the termination of the session or by
\* the timer of ten minutes (part_003:189-207), and every other step is code
\* that runs to its end.
SpecRunFair == SpecRun /\ WF_vars(RunProgress) /\ WF_cursor(LoopAdvances)

\* The status of every item handed to executeBatchTests.
BatchStatuses == {marks[testItems[i]].status : i \in 1..Len(testItems)}

C35_SuccessOnlyIfEveryItemPassed ==
  (run.phase = "ended" /\ run.statusBar = "passed") => BatchStatuses \subseteq {"passed"}

\* C34: run.end() is never called twice, and a run that was created is ended
\* and stays ended.
C34_RunEndsExactlyOnce ==
  /\ [](run.ended <= 1)
  /\ (run.phase # "idle") ~> [](run.ended = 1)

\* A run that was cancelled in the loop has ended once.
C34_Witness ==
  /\ run.phase = "ended"
  /\ run.ended = 1
  /\ cancelled
  /\ run.outcome = "resultFile"

(***************************************************************************)
(* SpecSessions: two batch runs in flight at the same time                  *)
(* (part_003:95-208).  Each run starts a debug session under its            *)
(* configuration name and waits for a termination event or for its timer.   *)
(***************************************************************************)
FeaturePaths == {"x/login.feature", "y/login.feature", "x/cart.feature"}

\* path.basename(relativePath, '.feature')
FeatureBaseName(relativePath) ==
  CASE relativePath = "x/login.feature" -> "login"
    [] relativePath = "y/login.feature" -> "login"
    [] relativePath = "x/cart.feature" -> "cart"

\* FeatureToRun; 0 stands for an undefined line
MkFeatureToRun(relativePath, lineNumber, exampleLine) ==
  [relativePath |-> relativePath, lineNumber |-> lineNumber, exampleLine |-> exampleLine]

BatchFeatures ==
  {<<MkFeatureToRun(f, l, 0)>> : f \in FeaturePaths, l \in {0, 5}}
  \cup {<<MkFeatureToRun("x/login.feature", 9, 13)>>,
        <<MkFeatureToRun("x/login.feature", 0, 0), MkFeatureToRun("x/cart.feature", 0, 0)>>,
        <<MkFeatureToRun("y/login.feature", 5, 0), MkFeatureToRun("x/cart.feature", 5, 0)>>}

\* part_003:101-115: the name of the launch configuration, as its parts
ConfigName(features, isDebug) ==
  LET configPrefix == IF isDebug THEN "Cucumber Debug: " ELSE "Cucumber: "
  IN  IF Len(features) = 1
      THEN LET feature == features[1]
           IN  IF feature.exampleLine # 0
               THEN <<configPrefix, "Example at line ", feature.exampleLine>>
               ELSE IF feature.lineNumber # 0
               THEN <<configPrefix, "Scenario at line ", feature.lineNumber>>
               ELSE <<configPrefix, FeatureBaseName(feature.relativePath)>>
      ELSE <<configPrefix, "All Features (", Len(features), " files)">>

\* No resolution yet, and the resolution by the run's own timer.
Unresolved == <<>>
ByTimeout == <<"timeout">>
BySession(j) == <<"session", j>>

\* part_003:157-208: one call of runWithVSCode
MkBatch(features, isDebug) ==
  [features |-> features, configName |-> ConfigName(features, isDebug),
   phase |-> "idle", session |-> "none", terminatedBy |-> Unresolved,
   resolvedBy |-> Unresolved, resultFile |-> FALSE]

Batches == 1..2

InitSessions ==
  /\ resultFile = [kind |-> "absent", data |-> <<>>]
  /\ featureFilePath = TargetPath
  /\ scenarioResults = <<>>
  /\ featureFailed = FALSE
  /\ done = {}
  /\ NotWaiting
  /\ NotWatching
  /\ NotParsing
  /\ NotMarking
  /\ requested = <<>>
  /\ run = MkRun("idle", TRUE, "idle", 0, "none")
  /\ \E f1 \in BatchFeatures, f2 \in BatchFeatures, d1 \in BOOLEAN, d2 \in BOOLEAN :
       sessions = <<MkBatch(f1, d1), MkBatch(f2, d2)>>

SessionsOnly ==
  /\ UNCHANGED <<requested, run>>
  /\ UNCHANGED markVars
  /\ UNCHANGED <<resultFile, featureFilePath, scenarioResults, featureFailed, done>>
  /\ UNCHANGED waitVars
  /\ UNCHANGED docVars
  /\ UNCHANGED catVars

\* part_003:182-189: startDebugging answers; the listener is registered and
\* the timer is set, or the run returns without a result file
StartDebugging(i, started) ==
  /\ sessions[i].phase = "idle"
  /\ sessions' = [sessions EXCEPT ![i] =
                    IF started
                    THEN [@ EXCEPT !.phase = "listening", !.session = "running"]
                    ELSE [@ EXCEPT !.phase = "notStarted"]]
  /\ SessionsOnly

\* part_003:190-192: the listener of a batch takes a terminated session for
\* its own by the session's name
ListenerMatches(listener, session) == session.configName = listener.configName

\* part_003:190-193: a session terminates; the event goes to every listener
\* still registered, and a listener that takes it disposes itself and starts
\* to read the results
SessionTerminates(j) ==
  /\ sessions[j].session = "running"
  /\ sessions' =
       [i \in Batches |->
          LET b == IF i = j THEN [sessions[i] EXCEPT !.session = "terminated"]
                   ELSE sessions[i]
          IN  IF b.phase = "listening" /\ ListenerMatches(b, sessions[j])
              THEN [b EXCEPT !.phase = "checking", !.terminatedBy = BySession(j)]
              ELSE b]
  /\ SessionsOnly

\* part_003:194-200: checkCucumberResults has answered; the promise is resolved
ResolveWithResultFile(i) ==
  /\ sessions[i].phase = "checking"
  /\ sessions' = [sessions EXCEPT ![i] =
                    [@ EXCEPT !.phase = "resolved", !.resolvedBy = sessions[i].terminatedBy,
                              !.resultFile = TRUE]]
  /\ SessionsOnly

\* part_003:203-207: the timer of ten minutes fires before the promise is
\* resolved
SessionTimeout(i) ==
  /\ sessions[i].phase \in {"listening", "checking"}
  /\ sessions' = [sessions EXCEPT ![i] =
                    [@ EXCEPT !.phase = "resolved", !.resolvedBy = ByTimeout]]
  /\ SessionsOnly

NextSessions ==
  \/ \E i \in Batches, started \in BOOLEAN : StartDebugging(i, started)
  \/ \E j \in Batches : SessionTerminates(j)
  \/ \E i \in Batches : ResolveWithResultFile(i)
  \/ \E i \in Batches : SessionTimeout(i)

SpecSessions == InitSessions /\ [][NextSessions]_vars

\* C37: a batch run is resolved by the termination of its own session or by
\* its own timer, never by the termination of the other run's session.
C37_ResolvedByOwnSessionOrTimeout ==
  \A i \in Batches :
    sessions[i].phase = "resolved" => sessions[i].resolvedBy \in {BySession(i), ByTimeout}

\* No timer of the file is pending and no re-parse of it is in flight.
Settled(f) == PendingFor(f) = {} /\ \A c \in inflight : c.file # f

\* The file was deleted and has not been created or changed since.
StaysDeleted(f) == fileText[f] = "missing"

\* C32: once the timers and re-parses of a deleted file have completed, the
\* catalog has no node for the file.
C32_DeletedFileLeavesNoNode ==
  \A f \in Files :
    (StaysDeleted(f) /\ Settled(f)) => (items[f] = NoItem /\ f \notin watchedFiles)

(***************************************************************************)
(* SpecRefresh: the file events of SpecCatalog together with refreshes      *)
(* (discoverTests, cucumberTestExplorer.ts:121-158).  One refresh runs at   *)
(* a time; it visits the files it found one after the other.                *)
(***************************************************************************)
FileOrder == <<"a.f", "b.f">>

\* cucumberTestExplorer.ts:142-145: findFiles answers with the files that exist
FindFiles == SelectSeq(FileOrder, LAMBDA f : fileText[f] # "missing")

\* cucumberTestExplorer.ts:121-157: discoverTests at one of its awaits
Discovery(phase, f, text, rest) ==
  [file |-> f, timer |-> 0, phase |-> phase, text |-> text, rest |-> rest]

Discoveries == {c \in inflight : c.timer = 0}

\* The discovery of the activation has run (cucumberTestExplorer.ts:69-73) in
\* a workspace with some feature files, and one debounce timer has come and
\* gone.
BuiltFrom(texts) ==
  LET first == createOrUpdateTest([items |-> [f \in Files |-> NoItem], watchedFiles |-> {}],
                                  FileOrder[1], texts[FileOrder[1]])
  IN  createOrUpdateTest(first, FileOrder[2], texts[FileOrder[2]])

InitRefresh ==
  /\ resultFile = [kind |-> "absent", data |-> <<>>]
  /\ featureFilePath = TargetPath
  /\ scenarioResults = <<>>
  /\ featureFailed = FALSE
  /\ done = {}
  /\ NotWaiting
  /\ NotMarking
  /\ NotParsing
  /\ NotRunning
  /\ fileText \in [Files -> {"missing", "v1"}]
  /\ items = BuiltFrom(fileText).items
  /\ watchedFiles = BuiltFrom(fileText).watchedFiles
  /\ updateTimers = [f \in Files |-> 0]
  /\ pendingTimers = {}
  /\ inflight = {}
  /\ nextTimer = 2

RefreshOnly ==
  /\ UNCHANGED <<fileText, updateTimers, pendingTimers, nextTimer>>
  /\ UNCHANGED <<resultFile, featureFilePath, scenarioResults, featureFailed, done>>
  /\ UNCHANGED waitVars
  /\ UNCHANGED markVars
  /\ UNCHANGED docVars
  /\ UNCHANGED runVars

\* cucumberTestExplorer.ts:121-145: the catalog and watchedFiles are emptied,
\* then findFiles is awaited
DiscoverTests ==
  /\ Discoveries = {}
  /\ items' = [f \in Files |-> NoItem]
  /\ watchedFiles' = {}
  /\ inflight' = inflight \cup {Discovery("finding", "", "missing", <<>>)}
  /\ RefreshOnly

\* cucumberTestExplorer.ts:142-151: findFiles has answered; the loop asks for
\* the first file's document
FindFilesAnswers(d) ==
  /\ d \in Discoveries
  /\ d.phase = "finding"
  /\ inflight' =
       (inflight \ {d}) \cup
         (IF Len(FindFiles) = 0 THEN {}
          ELSE {Discovery("discovering", Head(FindFiles), "missing", Tail(FindFiles))})
  /\ UNCHANGED <<items, watchedFiles>>
  /\ RefreshOnly

\* cucumberTestExplorer.ts:152 and :164-283: createOrUpdateTest goes on with
\* the document, and the loop asks for the next file's document
DiscoveryCompletes(d) ==
  /\ d \in Discoveries
  /\ d.phase = "discovered"
  /\ items' = createOrUpdateTest(Catalog, d.file, d.text).items
  /\ watchedFiles' = createOrUpdateTest(Catalog, d.file, d.text).watchedFiles
  /\ inflight' =
       (inflight \ {d}) \cup
         (IF Len(d.rest) = 0 THEN {}
          ELSE {Discovery("discovering", Head(d.rest), "missing", Tail(d.rest))})
  /\ RefreshOnly

\* cucumberTestExplorer.ts:163: openTextDocument reads the file for the
\* discovery, or fails
DiscoveryOpens(d) ==
  /\ d \in Discoveries
  /\ d.phase = "discovering"
  /\ inflight' = (inflight \ {d}) \cup {Discovery("discovered", d.file, fileText[d.file], d.rest)}
  /\ UNCHANGED <<items, watchedFiles>>
  /\ RefreshOnly

NextRefresh ==
  \/ \E f \in Files, t \in Texts : FileChanged(f, t)
  \/ \E f \in Files : FileDeleted(f)
  \/ \E tm \in pendingTimers : TimerFires(tm)
  \/ \E c \in inflight : OpenTextDocument(c)
  \/ \E c \in inflight : CompleteReparse(c)
  \/ DiscoverTests
  \/ \E d \in inflight : FindFilesAnswers(d)
  \/ \E d \in inflight : DiscoveryOpens(d)
  \/ \E d \in inflight : DiscoveryCompletes(d)

SpecRefresh == InitRefresh /\ [][NextRefresh]_vars

\* The ids of the controller's top-level items.
TopLevelIds == {f \in Files : items[f] # NoItem}

\* C33: watchedFiles and the controller's top-level items hold the same
\* feature ids.
C33_WatchedFilesAreTopLevelItems == watchedFiles = TopLevelIds

\* A refresh emptied the catalog and has put back the first of two files,
\* while a re-parse of the other is in flight.
C33_Witness ==
  /\ watchedFiles = {"a.f"}
  /\ \E d \in Discoveries : d.phase = "discovering" /\ d.file = "b.f"
  /\ \E c \in inflight : c.timer # 0 /\ c.file = "b.f"

(***************************************************************************)
(* SpecCount: the two test counts of the status bar.  A file whose text     *)
(* parses to featureInfo is put into the catalog; the count of a refresh    *)
(* is the sum of what createOrUpdateTest returns, the count after a file    *)
(* event is the number of leaves of the catalog.                            *)
(***************************************************************************)
MaxScenarios == 2

\* Scenarios at the lines first, first + 6, ..., each with its number of rows.
ScenariosAt(first, rowCounts) ==
  [i \in 1..Len(rowCounts) |->
     ScenarioDefinition("s", first + 6 * (i - 1),
                        [k \in 1..rowCounts[i] |-> first + 6 * (i - 1) + 3 + k])]

RowCounts == SeqsUpTo(0..MaxRows, MaxScenarios)

\* models.ts:46-52: features with and without scenarios, with no rule or
\* with one rule, the rule with and without scenarios
CountInfos ==
  {ParsedFeature("f", 1, ScenariosAt(3, own), <<>>) : own \in RowCounts}
  \cup {ParsedFeature("f", 1, ScenariosAt(3, own),
                      <<RuleBlock("r", 40, ScenariosAt(42, nested))>>) :
          own \in RowCounts, nested \in RowCounts}

InitCount ==
  /\ resultFile = [kind |-> "absent", data |-> <<>>]
  /\ featureFilePath = TargetPath
  /\ scenarioResults = <<>>
  /\ featureFailed = FALSE
  /\ done = {}
  /\ NotWaiting
  /\ NotMarking
  /\ NotRunning
  /\ NotWatching
  /\ document = <<>>
  /\ featureInfo \in CountInfos
  /\ returned = FALSE
  /\ codeLenses = NotProvided

\* cucumberTestExplorer.ts:164-258: createOrUpdateTest from the parsed
\* feature on
CreateTestFromInfo(f) ==
  /\ items[f] = NoItem
  /\ items' = [items EXCEPT ![f] = createFeatureItem(f, featureInfo)]
  /\ watchedFiles' = watchedFiles \cup {f}
  /\ fileText' = [fileText EXCEPT ![f] = "parsed"]
  /\ UNCHANGED <<updateTimers, pendingTimers, inflight, nextTimer>>
  /\ UNCHANGED <<resultFile, featureFilePath, scenarioResults, featureFailed, done>>
  /\ UNCHANGED waitVars
  /\ UNCHANGED markVars
  /\ UNCHANGED docVars
  /\ UNCHANGED runVars

NextCount == \E f \in Files : CreateTestFromInfo(f)

SpecCount == InitCount /\ [][NextCount]_vars

\* cucumberTestExplorer.ts:260-270
countTests(scenarios) ==
  LET acc[i \in 0..Len(scenarios)] ==
        IF i = 0 THEN 0
        ELSE IF Len(scenarios[i].examples) > 0
        THEN acc[i - 1] + Len(scenarios[i].examples)
        ELSE acc[i - 1] + 1
  IN  acc[Len(scenarios)]

\* cucumberTestExplorer.ts:272-273
TotalTests(info) ==
  LET acc[i \in 0..Len(info.rules)] ==
        IF i = 0 THEN 0 ELSE acc[i - 1] + countTests(info.rules[i].scenarios)
  IN  countTests(info.scenarios) + acc[Len(info.rules)]

RECURSIVE countChildTests(_)
\* cucumberTestExplorer.ts:498-508
countChildTests(item) ==
  IF Len(item.children) = 0
  THEN 1
  ELSE LET count[i \in 0..Len(item.children)] ==
             IF i = 0 THEN 0 ELSE count[i - 1] + countChildTests(item.children[i])
       IN  count[Len(item.children)]

\* cucumberTestExplorer.ts:149-157: the count a refresh shows, every file
\* of the catalog parsing to featureInfo
DiscoveredTestCount == Cardinality(watchedFiles) * TotalTests(featureInfo)

\* cucumberTestExplorer.ts:510-514: the count shown after a file event
StatusBarTestCount ==
  LET total[i \in 0..Len(FileOrder)] ==
        IF i = 0 THEN 0
        ELSE IF items[FileOrder[i]] = NoItem THEN total[i - 1]
        ELSE total[i - 1] + countChildTests(items[FileOrder[i]])
  IN  total[Len(FileOrder)]

\* C39: the count summed from createOrUpdateTest equals the number of leaves
\* of the catalog.
C39_TestCountsAgree == DiscoveredTestCount = StatusBarTestCount

====
